---- MODULE Spec2Model ----
(***************************************************************************)
(* fbx: export of Firefox bookmarks (src/fbx/__init__.py).                 *)
(*                                                                         *)
(* The model follows one process running main(): get_opts, the read of     *)
(* the places database (get_bookmarks and, row by row, get_parent_path),   *)
(* the load into the aggregation database (create_db_objects,              *)
(* insert_bookmarks), the read back (get_bookmarks_from_db) and the        *)
(* writers.  Text is a sequence of one-character strings, so that          *)
(* prefixes, concatenation and separators are what they are in Python.     *)
(***************************************************************************)
EXTENDS Integers, Sequences, FiniteSets, TLC

(***************************************************************************)
(* Bounds of the model.                                                    *)
(***************************************************************************)
MaxRuns == 3        \* invocations of the program on one aggregation database
NFolders == 3       \* folder rows of the generated folder tables
MaxRows == 3
MaxText == 4        \* bookmarks rows of the aggregation databases that are rendered

(***************************************************************************)
(* Text.                                                                   *)
(***************************************************************************)
Slash == <<"/">>
Http == <<"h", "t", "t", "p">>
HttpScheme == <<"h", "t", "t", "p", ":", "/", "/">>
HttpsScheme == <<"h", "t", "t", "p", "s", ":", "/", "/">>
ErrorMark == <<"/", "(", "E", "R", "R", "O", "R", ")">>
NoneText == <<"N", "o", "n", "e">>
DigitChars == <<"0", "1", "2", "3", "4", "5", "6", "7", "8", "9">>

StartsWith(s, prefix) ==
    /\ Len(s) >= Len(prefix)
    /\ SubSeq(s, 1, Len(prefix)) = prefix

EndsWith(s, suffix) ==
    /\ Len(s) >= Len(suffix)
    /\ SubSeq(s, Len(s) - Len(suffix) + 1, Len(s)) = suffix

\* the number of occurrences of the character c in s
Count(s, c) == Cardinality({k \in 1..Len(s) : s[k] = c})

\* "%02d"
D2(n) == <<DigitChars[((n \div 10) % 10) + 1], DigitChars[(n % 10) + 1]>>

(***************************************************************************)
(* SQL values: a column holds NULL or a value.  str() of a NULL column     *)
(* read into Python is the text "None".                                    *)
(***************************************************************************)
Null == [null |-> TRUE, v |-> <<>>]
NullId == [null |-> TRUE, v |-> 0]
Val(x) == [null |-> FALSE, v |-> x]
PyStr(col) == IF col.null THEN NoneText ELSE col.v

(***************************************************************************)
(* Time.  A time is a number of seconds since the epoch, taken in UTC and  *)
(* within January 1970, which is as far as the calendar is modelled.       *)
(***************************************************************************)
MicrosPerSecond == 1000000
SecondsPerDay == 24 * 60 * 60
DatePart(secs) == <<"1", "9", "7", "0", "-", "0", "1", "-">> \o D2(1 + secs \div SecondsPerDay)
HourMinute(secs) == D2((secs % SecondsPerDay) \div 3600) \o <<":">> \o D2((secs % 3600) \div 60)
\* strftime("%y%m%d_%H%M")
FormatTag(secs) ==
    <<"7", "0", "0", "1">> \o D2(1 + secs \div SecondsPerDay) \o <<"_">>
        \o D2((secs % SecondsPerDay) \div 3600) \o D2((secs % 3600) \div 60)
\* strftime("%Y-%m-%d %H:%M")
FormatMinutes(secs) == DatePart(secs) \o <<" ">> \o HourMinute(secs)
\* strftime("%Y-%m-%d %H:%M:%S")
FormatSeconds(secs) == FormatMinutes(secs) \o <<":">> \o D2(secs % 60)

from_moz_date(moz_date) == FormatSeconds(moz_date \div MicrosPerSecond)

app_name == <<"f", "b", "x", ".", "p", "y">>
version == <<"2", "0", "2", "4", ".", "0", "5", ".", "1">>

(***************************************************************************)
(* The places database: the tables moz_places(id, url) and                 *)
(* moz_bookmarks(id, fk, title, parent, dateAdded), and the modification   *)
(* time of the file.  None of this is written by the program.              *)
(***************************************************************************)
Place(id, url) == [id |-> id, url |-> url]
MozBookmark(id, fk, title, parent, dateAdded) ==
    [id |-> id, fk |-> fk, title |-> title, parent |-> parent, dateAdded |-> dateAdded]
Folder(id, title, parent) == MozBookmark(id, NullId, title, parent, 0)
PlacesDb(places, rows, mtime) == [places |-> places, bookmarks |-> rows, mtime |-> mtime]

UrlHome == <<"h", "t", "t", "p", ":", "/", "/", "e", "x", "/">>
UrlPage1 == <<"h", "t", "t", "p", ":", "/", "/", "e", "x", "/", "1">>
UrlPage2 == <<"h", "t", "t", "p", "s", ":", "/", "/", "e", "x", "/", "2">>
UrlHttpx == <<"h", "t", "t", "p", "x", ":", "/", "/", "e", "x">>
UrlPlace == <<"p", "l", "a", "c", "e", ":", "s", "o", "r", "t">>
UrlScript == <<"j", "a", "v", "a", "s", "c", "r", "i", "p", "t", ":", "0">>

TitleMenu == <<"m", "e", "n", "u">>
TitleF1 == <<"f", "-", "1">>
TitleF2 == <<"f", "-", "2">>
TitleF2a == <<"f", "-", "2", "a">>
TitleHome == <<"H", "o", "m", "e">>
TitleP1 == <<"P", "1">>
TitleP2 == <<"P", "2">>

FileMTime == SecondsPerDay + 3723        \* 1970-01-02 01:02:03

\* The places file of the tests (make_fake_places_file): menu (parent 0) holds
\* folder-1 and folder-2, folder-2 holds folder-2a; one bookmark in each of the
\* three folders, added on different dates.
TestFolders ==
    << Folder(1, Val(TitleMenu), 0), Folder(2, Val(TitleF1), 1),
       Folder(3, Val(TitleF2), 1), Folder(4, Val(TitleF2a), 3) >>
TestPlaces == << Place(1, Val(UrlHome)), Place(2, Val(UrlPage1)), Place(3, Val(UrlPage2)) >>
TestDb ==
    PlacesDb(TestPlaces,
             TestFolders \o
             << MozBookmark(5, Val(1), Val(TitleHome), 2, 100 * MicrosPerSecond),
                MozBookmark(6, Val(2), Val(TitleP1), 3, 500 * MicrosPerSecond + 999999),
                MozBookmark(7, Val(3), Val(TitleP2), 4, 300 * MicrosPerSecond) >>,
             FileMTime)

\* Two bookmark rows over a folder table: the first lies in folder `first`, the
\* second at the root (parent 0).
TwoBookmarks(folders, first) ==
    PlacesDb(TestPlaces,
             folders \o
             << MozBookmark(1001, Val(1), Val(TitleHome), first, 100 * MicrosPerSecond),
                MozBookmark(1002, Val(2), Val(TitleP1), 0, 200 * MicrosPerSecond) >>,
             FileMTime)

\* Folder tables over the ids 1..NFolders with every choice of parents in
\* 0..NFolders+1: forests, cycles, and chains that end at an id with no row
\* (NFolders+1).  The titles include an empty one, one holding a slash and a NULL.
FolderTitle(id) ==
    CASE id = 1 -> Val(TitleMenu)
      [] id = 2 -> Val(<<"a", "/", "b">>)
      [] id = 3 -> Val(TitleF1)
      [] id = 4 -> Val(<<>>)
      [] OTHER -> Null
GeneratedFolders(parent) == [i \in 1..NFolders |-> Folder(i, FolderTitle(i), parent[i])]
GeneratedDbs ==
    { TwoBookmarks(GeneratedFolders(parent), NFolders) :
        parent \in [1..NFolders -> 0..(NFolders + 1)] }

\* A folder id that has two rows.
DuplicateDb == TwoBookmarks(TestFolders \o << Folder(3, Val(TitleF1), 1) >>, 4)

\* A chain of n folders 1 <- 2 <- ... <- n below the root, the bookmark in folder n.
ChainDb(n) == TwoBookmarks([i \in 1..n |-> Folder(i, Val(<<"d">>), i - 1)], n)

\* Two bookmarks in folder-2 of the test folders, over every pair of URLs and
\* first titles: http and https URLs, other schemes, a scheme that only begins
\* with the letters http, and NULL; a title, an empty title and NULL.
Urls == { Val(UrlHome), Val(UrlPage2), Val(UrlHttpx), Val(UrlPlace), Val(UrlScript), Null }
Titles == { Val(TitleHome), Val(<<>>), Null }
UrlTitleDb(u1, t1, u2, t2) ==
    PlacesDb(<< Place(1, u1), Place(2, u2) >>,
             TestFolders \o
             << MozBookmark(1001, Val(1), t1, 3, 100 * MicrosPerSecond),
                MozBookmark(1002, Val(2), t2, 3, 200 * MicrosPerSecond) >>,
             FileMTime)
UrlTitleDbs == { UrlTitleDb(u1, t1, u2, t2) : u1 \in Urls, t1 \in Titles, u2 \in Urls, t2 \in Titles }

(***************************************************************************)
(* Command line and options.                                               *)
(***************************************************************************)
HostAlpha == <<"a", "l", "p", "h", "a">>
HostBeta == <<"b", "e", "t", "a">>
HostNames == {HostAlpha, HostBeta}
PlacesPath == <<"p", "l", "a", "c", "e", "s", ".", "s", "q", "l", "i", "t", "e">>

\* Path: the text of a path, and None for an option that names no file.
None == <<>>
Dot == <<".">>

\* Path(p).name: what follows the last slash
PathName(p) ==
    LET slashes == {k \in 1..Len(p) : p[k] = "/"}
    IN  IF slashes = {} THEN p
        ELSE SubSeq(p, (CHOOSE k \in slashes : \A j \in slashes : j <= k) + 1, Len(p))

\* Path(p).suffix: the name from its last dot on, unless that dot is the first or
\* the last character of the name or the name has no dot
PathSuffix(p) ==
    LET name == PathName(p)
        dots == {k \in 1..Len(name) : name[k] = "."}
        last == CHOOSE k \in dots : \A j \in dots : j <= k
    IN  IF dots = {} THEN <<>>
        ELSE IF last = 1 \/ last = Len(name) THEN <<>>
        ELSE SubSeq(name, last, Len(name))

\* Path(p).stem: the name without its suffix
PathStem(p) ==
    LET name == PathName(p)
    IN  SubSeq(name, 1, Len(name) - Len(PathSuffix(p)))

\* Path(p).with_suffix(suffix), for a path of one component
WithSuffix(p, suffix) == SubSeq(p, 1, Len(p) - Len(PathSuffix(p))) \o suffix

HtmlSuffix == <<".", "h", "t", "m", "l">>
MdSuffix == <<".", "m", "d">>
ByDateTag == <<"-", "b", "y", "d", "a", "t", "e">>
DefaultPrefix ==
    <<"F", "i", "r", "e", "f", "o", "x", "-", "b", "o", "o", "k", "m", "a", "r", "k", "s", "-">>

\* The names given to --output-name: one with an extension, one whose stem holds
\* a dot, one in a folder and without extension.
NameTxt == <<"m", "y", "n", "a", "m", "e", ".", "t", "x", "t">>
NameDotted == <<"r", "e", "p", ".", "v", "2", ".", "t", "x", "t">>
NameInFolder == <<"o", "u", "t", "/", "l", "i", "s", "t">>
OutputNames == {NameTxt, NameDotted, NameInFolder}

\* What the command line and the file system give get_opts: whether the places
\* file is found ("no_folder": the profile folder does not exist; "no_file": the
\* file named by --places-file does not exist), the switches, and the name given
\* to --output-name (empty when the option is not given).
Args(source, output_db, source_db, do_bydate, do_markdown, host_name, use_mtime, output_file) ==
    [source |-> source, output_db |-> output_db, source_db |-> source_db,
     do_bydate |-> do_bydate, do_markdown |-> do_markdown,
     host_name |-> host_name, use_mtime |-> use_mtime, output_file |-> output_file]

\* The command lines the runs are drawn from: a source that is not found, with
\* and without --from-sqlite; a load into the aggregation database for each host
\* name; a read from the aggregation database and an export from the places
\* file, each with every choice of --by-date and --md; exports with --asof-mtime
\* and with --output-name.
ArgChoices ==
    { Args(s, FALSE, from_db, FALSE, FALSE, HostAlpha, FALSE, <<>>) :
        s \in {"no_folder", "no_file"}, from_db \in BOOLEAN }
    \cup { Args("found", TRUE, FALSE, FALSE, FALSE, h, FALSE, <<>>) : h \in HostNames }
    \cup { Args("found", FALSE, TRUE, d, m, HostAlpha, FALSE, <<>>) : d \in BOOLEAN, m \in BOOLEAN }
    \cup { Args("found", FALSE, TRUE, TRUE, FALSE, HostAlpha, TRUE, <<>>) }
    \cup { Args("found", FALSE, FALSE, d, m, HostAlpha, u, <<>>) :
             d \in BOOLEAN, m \in BOOLEAN, u \in BOOLEAN }
    \cup { Args("found", FALSE, FALSE, d, m, HostAlpha, FALSE, n) :
             d \in BOOLEAN, m \in BOOLEAN, n \in OutputNames }

\* The times at which a run may start (run_dt = datetime.now()).
RunTimes == {3600 + 61, 2 * 3600 + 125}

NoOpts == [places_file |-> FALSE, output_file |-> None, bydate_file |-> None,
           md_file |-> None, md_bydate |-> None, out_db |-> FALSE, in_db |-> FALSE,
           host_name |-> <<>>, use_mtime |-> FALSE]

\* as get_asof_date, the flag ignored
get_asof_date_RunTime(use_mtime, places_file, mtime, now) == now

get_asof_date(use_mtime, places_file, mtime, now) ==
    IF use_mtime /\ places_file THEN mtime ELSE now

\* out_file of get_opts: the name given, its extension made ".html", or the
\* default name with the host name and the as-of date
OutFile(args, mtime, now) ==
    IF args.output_file # <<>>
    THEN WithSuffix(PathStem(args.output_file), HtmlSuffix)
    ELSE DefaultPrefix \o args.host_name \o <<"-">>
            \o FormatTag(get_asof_date(args.use_mtime, TRUE, mtime, now)) \o HtmlSuffix

\* f"{output_file.stem}-bydate{output_file.suffix}"
ByDateFile(output_file) == PathStem(output_file) \o ByDateTag \o PathSuffix(output_file)
\* f"{output_file.stem}.md"
MdFile(file) == PathStem(file) \o MdSuffix

\* AppOptions as get_opts builds it.  The output files are given by their names
\* (they all lie in the output folder); places_file, out_db and in_db by
\* whether they are set.
AppOptions(args, mtime, now) ==
    LET output_file == PathName(OutFile(args, mtime, now))
        bydate_file == IF args.do_bydate THEN ByDateFile(output_file) ELSE None
    IN  [places_file |-> TRUE,
         output_file |-> output_file,
         bydate_file |-> bydate_file,
         md_file |-> IF args.do_markdown THEN MdFile(output_file) ELSE None,
         md_bydate |-> IF args.do_markdown /\ bydate_file # None THEN MdFile(bydate_file) ELSE None,
         out_db |-> args.output_db,
         in_db |-> args.source_db,
         host_name |-> args.host_name,
         use_mtime |-> args.use_mtime]

(***************************************************************************)
(* Records.                                                                *)
(***************************************************************************)
Bookmark(title, url, parent_path, when_added, host_name, asof_dt) ==
    [title |-> title, url |-> url, parent_path |-> parent_path,
     when_added |-> when_added, host_name |-> host_name, asof_dt |-> asof_dt]

\* rows of the aggregation database
HostRow(id, host_name, source, created) ==
    [id |-> id, host_name |-> host_name, source |-> source, created |-> created,
     app_name |-> app_name, app_version |-> version]
BookmarkRow(id, host_id, bmk) ==
    [id |-> id, host_id |-> host_id, title |-> bmk.title, url |-> bmk.url,
     parent_path |-> bmk.parent_path, when_added |-> bmk.when_added]

(***************************************************************************)
(* Queries.                                                                *)
(***************************************************************************)
\* SELECT b.title, p.url, b.parent, b.dateAdded
\* FROM moz_bookmarks b JOIN moz_places p ON p.id = b.fk
JoinedRow(b, p) == [title |-> b.title, url |-> p.url, parent |-> b.parent, dateAdded |-> b.dateAdded]
\* The rows come in the order of the scan: by row of moz_bookmarks, then by row
\* of moz_places.
JoinMatches(placesdb) ==
    { m \in (1..Len(placesdb.bookmarks)) \X (1..Len(placesdb.places)) :
        /\ ~placesdb.bookmarks[m[1]].fk.null
        /\ placesdb.places[m[2]].id = placesdb.bookmarks[m[1]].fk.v }
ScanBefore(m, n) == m[1] < n[1] \/ (m[1] = n[1] /\ m[2] < n[2])
BookmarkQuery(placesdb) ==
    LET matches == JoinMatches(placesdb)
        nth(k) == CHOOSE m \in matches : Cardinality({n \in matches : ScanBefore(n, m)}) = k - 1
    IN  [k \in 1..Cardinality(matches) |->
            JoinedRow(placesdb.bookmarks[nth(k)[1]], placesdb.places[nth(k)[2]])]

\* SELECT parent, title FROM moz_bookmarks WHERE id = {0}
FolderQuery(placesdb, id) == SelectSeq(placesdb.bookmarks, LAMBDA r : r.id = id)

\* as HostQuery, with the rows matched on the column source
HostQuery_BySource(host_rows, host_name) == SelectSeq(host_rows, LAMBDA h : h.source = host_name)

\* SELECT host_name FROM hosts WHERE host_name = ?
HostQuery(host_rows, host_name) == SelectSeq(host_rows, LAMBDA h : h.host_name = host_name)

\* the rowid given to a row inserted into a table with INTEGER PRIMARY KEY
RECURSIVE MaxId(_)
MaxId(table) ==
    IF table = <<>> THEN 0
    ELSE LET m == MaxId(Tail(table)) IN IF Head(table).id > m THEN Head(table).id ELSE m
NewRowId(table) == MaxId(table) + 1

\* view_bookmarks: bookmarks b JOIN hosts h ON h.id = b.host_id
ViewRow(b, h) ==
    [id |-> b.id, title |-> b.title, url |-> b.url, parent_path |-> b.parent_path,
     when_added |-> b.when_added, host_id |-> b.host_id, host_name |-> h.host_name,
     created |-> h.created, source |-> h.source]
\* as ViewMatches, joined on the bookmark's own id
ViewMatches_ById(host_rows, bookmark_rows) ==
    { m \in (1..Len(bookmark_rows)) \X (1..Len(host_rows)) :
        host_rows[m[2]].id = bookmark_rows[m[1]].id }

ViewMatches(host_rows, bookmark_rows) ==
    { m \in (1..Len(bookmark_rows)) \X (1..Len(host_rows)) :
        host_rows[m[2]].id = bookmark_rows[m[1]].host_id }
view_bookmarks(host_rows, bookmark_rows) ==
    LET matches == ViewMatches(host_rows, bookmark_rows)
        nth(k) == CHOOSE m \in matches : Cardinality({n \in matches : ScanBefore(n, m)}) = k - 1
    IN  [k \in 1..Cardinality(matches) |-> ViewRow(bookmark_rows[nth(k)[1]], host_rows[nth(k)[2]])]

\* Text comparison (BINARY collation in SQLite, str < str in Python): by
\* character code.  Characters holds the characters of the model in the order of
\* their codes; the last one is not ASCII.
Characters ==
    << " ", "!", "\"", "#", "$", "%", "&", "'", "(", ")", "*", "+", ",", "-", ".", "/",
       "0", "1", "2", "3", "4", "5", "6", "7", "8", "9", ":", ";", "<", "=", ">", "?", "@",
       "A", "B", "C", "D", "E", "F", "G", "H", "I", "J", "K", "L", "M", "N", "O", "P", "Q",
       "R", "S", "T", "U", "V", "W", "X", "Y", "Z", "[", "\\", "]", "^", "_",
       "a", "b", "c", "d", "e", "f", "g", "h", "i", "j", "k", "l", "m", "n", "o", "p", "q",
       "r", "s", "t", "u", "v", "w", "x", "y", "z", "{", "|", "}", "~", "é" >>
CharCodes == [c \in {Characters[k] : k \in 1..Len(Characters)} |->
                CHOOSE k \in 1..Len(Characters) : Characters[k] = c]
CharCode(c) == CharCodes[c]
\* s < t: at the first place where they differ s has the lower code, or s is a
\* proper prefix of t
TextLess(s, t) ==
    LET n == IF Len(s) < Len(t) THEN Len(s) ELSE Len(t)
    IN  IF \A k \in 1..n : s[k] = t[k] THEN Len(s) < Len(t)
        ELSE LET first == CHOOSE k \in 1..n : s[k] # t[k] /\ \A j \in 1..(k - 1) : s[j] = t[j]
             IN  CharCode(s[first]) < CharCode(t[first])

\* ORDER BY parent_path, title.  Rows with equal keys stay in the order of the scan.
OrderKeyLess(a, b) ==
    \/ TextLess(a.parent_path, b.parent_path)
    \/ a.parent_path = b.parent_path /\ TextLess(a.title, b.title)
RECURSIVE InsertOrdered(_, _)
InsertOrdered(sorted, row) ==
    IF sorted = <<>> THEN << row >>
    ELSE IF OrderKeyLess(row, Head(sorted)) THEN << row >> \o sorted
    ELSE << Head(sorted) >> \o InsertOrdered(Tail(sorted), row)
RECURSIVE OrderByPathTitle(_)
OrderByPathTitle(view_rows) ==
    IF view_rows = <<>> THEN <<>>
    ELSE InsertOrdered(OrderByPathTitle(SubSeq(view_rows, 1, Len(view_rows) - 1)),
                       view_rows[Len(view_rows)])

\* SELECT count(id) FROM hosts
CountHosts(host_rows) == Len(host_rows)

\* Bookmark(row[0], ..., row[5]) for the rows of
\* SELECT title, url, parent_path, when_added, host_name, created FROM view_bookmarks
BookmarkOfView(r) == Bookmark(r.title, r.url, r.parent_path, r.when_added, r.host_name, r.created)
BookmarksFromDb(host_rows, bookmark_rows) ==
    LET ordered == OrderByPathTitle(view_bookmarks(host_rows, bookmark_rows))
    IN  [k \in 1..Len(ordered) |-> BookmarkOfView(ordered[k])]

(***************************************************************************)
(* The writers.  A file is modelled by the items written between its head  *)
(* and its tail: the banners and, for each record, its fields as they are  *)
(* formatted.                                                              *)
(***************************************************************************)
UpperChars ==
    << "A", "B", "C", "D", "E", "F", "G", "H", "I", "J", "K", "L", "M", "N", "O", "P", "Q",
       "R", "S", "T", "U", "V", "W", "X", "Y", "Z" >>
LowerChars ==
    << "a", "b", "c", "d", "e", "f", "g", "h", "i", "j", "k", "l", "m", "n", "o", "p", "q",
       "r", "s", "t", "u", "v", "w", "x", "y", "z" >>
\* str.lower()
LowerOf ==
    [c \in {Characters[k] : k \in 1..Len(Characters)} |->
        IF \E u \in 1..Len(UpperChars) : UpperChars[u] = c
        THEN LowerChars[CHOOSE u \in 1..Len(UpperChars) : UpperChars[u] = c]
        ELSE c]
Lower(s) == [k \in 1..Len(s) |-> LowerOf[s[k]]]

\* a key comes before another in a sort: the comparison is turned round with
\* reverse=True
KeyLess(a, b, reverse) == IF reverse THEN TextLess(b, a) ELSE TextLess(a, b)

\* list.sort(key=..., reverse=...): the order in which a stable sort leaves the
\* elements, as the sequence of their indices, given the keys of the elements.
\* Elements with equal keys keep their order, also with reverse=True.
OrderOf(keys, reverse) ==
    [k \in 1..Len(keys) |->
        CHOOSE i \in 1..Len(keys) :
            Cardinality({j \in 1..Len(keys) :
                \/ KeyLess(keys[j], keys[i], reverse)
                \/ (~KeyLess(keys[i], keys[j], reverse) /\ j < i)}) = k - 1]
\* OrderOf, the keys being computed once
SortOrder(keys, reverse) == CHOOSE r \in {OrderOf(ks, reverse) : ks \in {keys}} : TRUE
Pick(s, order) == [k \in 1..Len(order) |-> s[order[k]]]

\* key=lambda item: item.title.lower(), and the other keys
TitleKeys(s) == [k \in 1..Len(s) |-> Lower(s[k].title)]
PathKeys(s) == [k \in 1..Len(s) |-> Lower(s[k].parent_path)]
HostKeys(s) == [k \in 1..Len(s) |-> Lower(s[k].host_name)]
UrlKeys(s) == [k \in 1..Len(s) |-> s[k].url]
WhenAddedKeys(s) == [k \in 1..Len(s) |-> s[k].when_added]

\* bmks.sort(key=...) for a list whose elements have the keys `keys` and stand
\* in the order `sofar`, in which an earlier sort left them: the order after
\* this sort
ThenSort(keys, sofar, reverse) ==
    CHOOSE r \in UNION { { [k \in 1..Len(o1) |-> o1[o2[k]]] :
                            o2 \in {SortOrder(Pick(keys, o1), reverse)} } :
                         o1 \in {sofar} } : TRUE
Unsorted(s) == [k \in 1..Len(s) |-> k]

\* as LocationSort, with the sort by title made last
LocationSort_TitleLast(s) ==
    ThenSort(TitleKeys(s),
             ThenSort(PathKeys(s), ThenSort(HostKeys(s), Unsorted(s), FALSE), FALSE),
             FALSE)

\* bmks.sort(title.lower()); bmks.sort(parent_path.lower()); bmks.sort(host_name.lower())
LocationSort(s) ==
    ThenSort(HostKeys(s),
             ThenSort(PathKeys(s), ThenSort(TitleKeys(s), Unsorted(s), FALSE), FALSE),
             FALSE)

\* as ByDateSort, with the sort by when_added left ascending
ByDateSort_Ascending(s, newest_first) ==
    ThenSort(WhenAddedKeys(s),
             ThenSort(UrlKeys(s), ThenSort(HostKeys(s), Unsorted(s), FALSE), FALSE),
             FALSE)

\* bmks.sort(host_name.lower()); bmks.sort(url); bmks.sort(when_added), the last
\* with reverse=True in the HTML writer
ByDateSort(s, newest_first) ==
    ThenSort(WhenAddedKeys(s),
             ThenSort(UrlKeys(s), ThenSort(HostKeys(s), Unsorted(s), FALSE), FALSE),
             newest_first)

\* str.replace(c, by) for a character c: each character of s gives one
\* character of the result, or the characters of `by` (the text is taken by
\* halves)
RECURSIVE Replace(_, _, _)
Replace(s, c, by) ==
    IF Len(s) = 0 THEN <<>>
    ELSE IF Len(s) = 1 THEN (IF s[1] = c THEN by ELSE s)
    ELSE LET half == Len(s) \div 2
         IN  Replace(SubSeq(s, 1, half), c, by) \o Replace(SubSeq(s, half + 1, Len(s)), c, by)

Amp == <<"&", "a", "m", "p", ";">>
Lt == <<"&", "l", "t", ";">>
Gt == <<"&", "g", "t", ";">>
\* as htm_txt, with "&" replaced last
htm_txt_AmpLast(text) == Replace(Replace(Replace(text, "<", Lt), ">", Gt), "&", Amp)

\* s = text.replace("&", "&amp;"); s = s.replace("<", "&lt;"); return s.replace(">", "&gt;")
htm_txt(text) == Replace(Replace(Replace(text, "&", Amp), "<", Lt), ">", Gt)
\* url.replace("&", "%26")
htm_url(url) == Replace(url, "&", <<"%", "2", "6">>)

\* ascii(s): repr of the text with what is not ASCII escaped.  The quote is the
\* apostrophe, unless the text holds an apostrophe and no double quote; the
\* quote character and the backslash are escaped with a backslash.
AsciiQuote(s) ==
    IF (\E k \in 1..Len(s) : s[k] = "'") /\ ~(\E k \in 1..Len(s) : s[k] = "\"")
    THEN "\"" ELSE "'"
ascii(s) ==
    LET q == AsciiQuote(s)
        escaped == Replace(Replace(Replace(s, "\\", <<"\\", "\\">>), q, <<"\\", q>>),
                           "é", <<"\\", "x", "e", "9">>)
    IN  << q >> \o escaped \o << q >>

length_limit == 180
Ellipsis == <<".", ".", ".">>
\* if len(s) <= length_limit: return s; return s[:177] + "..."
limited(value) ==
    IF Len(value) <= length_limit THEN value
    ELSE SubSeq(value, 1, 177) \o Ellipsis

\* str.strip("'"): without the apostrophes at its two ends
Strip(s) ==
    IF \A k \in 1..Len(s) : s[k] = "'" THEN <<>>
    ELSE LET first == CHOOSE k \in 1..Len(s) : s[k] # "'" /\ \A j \in 1..(k - 1) : s[j] = "'"
             last == CHOOSE k \in 1..Len(s) : s[k] # "'" /\ \A j \in (k + 1)..Len(s) : s[j] = "'"
         IN  SubSeq(s, first, last)

\* the title as the HTML writers and as the Markdown writers put it
HtmlTitle(bmk) == htm_txt(limited(ascii(bmk.title)))
MarkdownTitle(bmk) == htm_txt(Strip(limited(ascii(bmk.title))))

\* An item of a file: kind "asof" is the banner "On host ... as of ...", kind
\* "multiple" the banner "Combined bookmarks from multiple hosts.", kind
\* "bookmark" a record.
Item(kind, host_name, asof_dt, title, parent_path, url, when_added, host_str) ==
    [kind |-> kind, host_name |-> host_name, asof_dt |-> asof_dt, title |-> title,
     parent_path |-> parent_path, url |-> url, when_added |-> when_added,
     host_str |-> host_str]
AsOfItem(bmk) == Item("asof", bmk.host_name, bmk.asof_dt, <<>>, <<>>, <<>>, <<>>, <<>>)
MultipleHostsItem == Item("multiple", <<>>, <<>>, <<>>, <<>>, <<>>, <<>>, <<>>)
BookmarkItem(bmk, title, host_str) ==
    Item("bookmark", <<>>, <<>>, title, htm_txt(bmk.parent_path), htm_url(bmk.url),
         bmk.when_added, host_str)

\* the loop of write_bookmarks_html and write_bookmarks_markdown over the sorted
\* records from index k on: the banner of the host whenever the host name
\* differs from that of the record before (last_host is "" before the first)
RECURSIVE LocationItems(_, _, _)
LocationItems(sorted, k, markdown) ==
    IF k > Len(sorted) THEN <<>>
    ELSE LET bmk == sorted[k]
             last_host == IF k = 1 THEN <<>> ELSE sorted[k - 1].host_name
             title == IF markdown THEN MarkdownTitle(bmk) ELSE HtmlTitle(bmk)
         IN  (IF bmk.host_name # last_host THEN << AsOfItem(bmk) >> ELSE <<>>)
                \o << BookmarkItem(bmk, title, <<>>) >>
                \o LocationItems(sorted, k + 1, markdown)

\* assert bmk.host_name; assert bmk.asof_dt  (write_bookmarks_html only)
FirstUnnamed(sorted) ==
    LET bad == {k \in 1..Len(sorted) : sorted[k].host_name = <<>> \/ sorted[k].asof_dt = <<>>}
    IN  IF bad = {} THEN 0 ELSE CHOOSE k \in bad : \A j \in bad : k <= j

\* host_str of the writers by date
HtmlHostStr(host_name) ==
    <<"&", "n", "b", "s", "p", ";", "(">> \o host_name \o <<")">>
MarkdownHostStr(host_name) == <<"H", "o", "s", "t", ":", " ">> \o host_name

\* if n_hosts > 1: ... "Combined bookmarks from multiple hosts." elif bmks: ...
ByDateBanner(count, sorted) ==
    IF count > 1 THEN << MultipleHostsItem >>
    ELSE IF sorted # <<>> THEN << AsOfItem(sorted[1]) >>
    ELSE <<>>

\* the files of write_bookmarks_by_date_html and write_bookmarks_markdown_by_date
ByDateItems(count, sorted, markdown) ==
    ByDateBanner(count, sorted) \o
    [k \in 1..Len(sorted) |->
        LET bmk == sorted[k]
        IN  BookmarkItem(bmk,
                         IF markdown THEN MarkdownTitle(bmk) ELSE HtmlTitle(bmk),
                         IF count > 1
                         THEN (IF markdown THEN MarkdownHostStr(bmk.host_name)
                               ELSE HtmlHostStr(bmk.host_name))
                         ELSE <<>>)]

(***************************************************************************)
(* State.                                                                  *)
(***************************************************************************)
VARIABLES
    places_db,      \* the places database read by the runs
    hosts,          \* aggregation database: committed rows of table hosts
    bookmarks,      \* aggregation database: committed rows of table bookmarks
    db_objects,     \* aggregation database: the tables and views that exist
    files,          \* the names of the output files written by the current run
    out,            \* what the current run wrote to each of its output files
    runs,           \* number of runs started
    run_dt,         \* run_dt of the current run
    opts,           \* AppOptions of the current run
    pc,             \* where the current run stands
    con,            \* connection to the places database: "none", "open", "closed"
    db,             \* connection to the aggregation database: "none", "open", "closed"
    rows,           \* get_bookmarks: the fetched rows
    idx,            \* get_bookmarks: index of the row being handled
    bmks,           \* the list of Bookmark records of the run
    parent_id,      \* get_parent_path
    depth,          \* get_parent_path
    parent_path,    \* get_parent_path
    host_id,        \* insert_bookmarks: cur.lastrowid of the hosts row
    pending,        \* insert_bookmarks: bookmarks rows inserted and not yet committed
    n_hosts,        \* main: host count given to the by-date writers
    ok,             \* main: ok
    result,         \* what main returned: 0 or 1, and -1 while it has not returned
    exit_code,      \* exit status of the process: 0 or 1, and -1 while it runs
    error,          \* the exception that ended the run, or "none"
    stderr,         \* the messages written to standard error by the run
    lookups,        \* history: folder queries run by the current get_parent_path call
    from_row,       \* history: for each record of bmks, the index in rows of its row
    loaded,         \* history: the accepted loads, each with its host name and records
    pre,            \* history: the aggregation database as it was when the run started
    argv,           \* history: the command line of the current run, once get_opts has read it
    procs           \* the invocations that load one aggregation database at the same time

vars ==
    << places_db, hosts, bookmarks, db_objects, files, out, runs, run_dt, opts, pc, con, db,
       rows, idx, bmks, parent_id, depth, parent_path, host_id, pending, n_hosts, ok,
       result, exit_code, error, stderr, lookups, from_row, loaded, pre, argv, procs >>

storeVars == << hosts, bookmarks, db_objects >>
fileVars == << files, out >>
walkVars == << parent_id, depth, parent_path, lookups >>
loopVars == << rows, idx, bmks, from_row >>
loadVars == << host_id, pending >>
endVars == << result, exit_code, error >>
runVars == << places_db, runs, run_dt, opts, pre, loaded, argv, procs >>

max_depth == 99

\* no file is written yet
NoOutput == [html |-> <<>>, md |-> <<>>, bydate_html |-> <<>>, bydate_md |-> <<>>]

\* A run starts: the module is loaded (run_dt) and main is entered.
StartOfRun(now) ==
    /\ run_dt = now
    /\ opts = NoOpts
    /\ pc = "get_opts"
    /\ con = "none"
    /\ db = "none"
    /\ rows = <<>>
    /\ idx = 1
    /\ bmks = <<>>
    /\ parent_id = 0
    /\ depth = 0
    /\ parent_path = <<>>
    /\ host_id = 0
    /\ pending = <<>>
    /\ n_hosts = 0
    /\ ok = TRUE
    /\ result = -1
    /\ exit_code = -1
    /\ error = "none"
    /\ stderr = {}
    /\ files = {}
    /\ out = NoOutput
    /\ lookups = 0
    /\ from_row = <<>>
    /\ argv = <<>>
    /\ procs = <<>>

EmptyStore ==
    /\ hosts = <<>>
    /\ bookmarks = <<>>
    /\ db_objects = {}
    /\ loaded = <<>>
    /\ pre = [hosts |-> <<>>, bookmarks |-> <<>>, objects |-> {}]

\* The places databases of the runs that share an aggregation database.
StoreDbs == { TestDb, DuplicateDb, ChainDb(max_depth + 1), UrlTitleDb(Val(UrlHome), Null, Val(UrlPlace), Val(TitleHome)) }

Init ==
    /\ places_db \in StoreDbs
    /\ runs = 1
    /\ \E now \in RunTimes : StartOfRun(now)
    /\ EmptyStore

\* One run over each places database of the generated families.
ExtractDbs ==
    GeneratedDbs \cup UrlTitleDbs
    \cup { TestDb, DuplicateDb, ChainDb(max_depth - 1), ChainDb(max_depth), ChainDb(max_depth + 1) }

InitExtract ==
    /\ places_db \in ExtractDbs
    /\ runs = 1
    /\ \E now \in RunTimes : StartOfRun(now)
    /\ EmptyStore

(***************************************************************************)
(* How a run ends.                                                         *)
(***************************************************************************)
\* sys.exit(code)
SysExit(code) ==
    /\ pc' = "exited"
    /\ exit_code' = code
    /\ error' = "SystemExit"
    /\ result' = result

\* An exception that nothing catches: the interpreter prints the traceback and
\* the process ends with status 1.  What a connection had not committed is lost.
Raise(exception) ==
    /\ pc' = "exited"
    /\ exit_code' = 1
    /\ error' = exception
    /\ result' = result

(***************************************************************************)
(* main: get_opts.                                                         *)
(***************************************************************************)
\* get_opts ends the process with sys.exit(1) when the profile folder does not
\* exist, and when --from-sqlite names a file that does not exist.  When the file
\* named by --places-file does not exist, the message it builds names `p`, which
\* is not bound on that path: the UnboundLocalError ends the process.
GetOpts ==
    /\ pc = "get_opts"
    /\ \E args \in ArgChoices :
        /\ argv' = <<args>>
        /\ IF args.source = "no_folder"
           THEN /\ stderr' = stderr \cup {"cannot find folder"}
                /\ SysExit(1)
                /\ opts' = opts
           ELSE IF args.source = "no_file"
           THEN /\ Raise("UnboundLocalError")
                /\ UNCHANGED << stderr, opts >>
           ELSE IF args.source_db /\ db_objects = {}
           THEN /\ stderr' = stderr \cup {"cannot find in_db"}
                /\ SysExit(1)
                /\ opts' = opts
           ELSE /\ opts' = AppOptions(args, places_db.mtime, run_dt)
                /\ pc' = IF args.source_db THEN "from_db" ELSE "get_bookmarks"
                /\ UNCHANGED << stderr, endVars >>
    /\ UNCHANGED << places_db, runs, run_dt, pre, loaded, procs, storeVars, fileVars, con, db,
                    loopVars, walkVars, loadVars, n_hosts, ok >>

(***************************************************************************)
(* main: reading the places database.                                      *)
(***************************************************************************)
\* How a query of the places database ends: it runs, or the database is locked
\* by the browser (sqlite3.OperationalError "database is locked" once the
\* connection's timeout has passed), or it fails otherwise.
QueryOutcomes == {"ok", "locked", "failed"}

\* con = sqlite3.connect(places_file); get_bookmarks up to rows = cur.fetchall()
GetBookmarksQuery ==
    /\ pc = "get_bookmarks"
    /\ \E outcome \in QueryOutcomes :
        CASE outcome = "ok" ->
                /\ con' = "open"
                /\ rows' = BookmarkQuery(places_db)
                /\ idx' = 1
                /\ pc' = "rows"
                /\ UNCHANGED << stderr, endVars >>
          [] outcome = "locked" ->
                /\ con' = "closed"
                /\ stderr' = stderr \cup {"database is locked"}
                /\ SysExit(1)
                /\ UNCHANGED << rows, idx >>
          [] outcome = "failed" ->
                /\ con' = "open"
                /\ Raise("OperationalError")
                /\ UNCHANGED << stderr, rows, idx >>
    /\ UNCHANGED << runVars, storeVars, fileVars, db, bmks, from_row, walkVars, loadVars, n_hosts, ok >>

asof(o, placesdb, now) ==
    FormatMinutes(get_asof_date(o.use_mtime, o.places_file, placesdb.mtime, now))

\* title = str(row[0]); if title is None: title = f"({url})"
BookmarkTitle(row, url) ==
    LET title == Val(PyStr(row.title))
    IN  IF title.null THEN <<"(">> \o url \o <<")">> ELSE title.v

\* if not url.startswith("http")
IsSkipped(url) == ~StartsWith(url, Http)

\* the Bookmark appended for rows[idx] once its parent path is known
NewBookmark(row, path) ==
    LET url == PyStr(row.url)
    IN  Bookmark(BookmarkTitle(row, url), url, path, from_moz_date(row.dateAdded),
                 opts.host_name, asof(opts, places_db, run_dt))

\* The loop over the rows: a row whose URL does not start with "http" is
\* skipped; for any other row get_parent_path is entered.
GetBookmarksRow ==
    /\ pc = "rows"
    /\ idx <= Len(rows)
    /\ IF IsSkipped(PyStr(rows[idx].url))
       THEN /\ idx' = idx + 1
            /\ UNCHANGED << pc, walkVars >>
       ELSE /\ parent_id' = rows[idx].parent
            /\ depth' = 0
            /\ parent_path' = Slash
            /\ lookups' = 0
            /\ pc' = "walk"
            /\ idx' = idx
    /\ UNCHANGED << runVars, storeVars, fileVars, con, db, rows, bmks, from_row, loadVars,
                    n_hosts, ok, endVars, stderr >>

\* After the last row: con.rollback(), cur.close(), return; main closes con.
GetBookmarksReturn ==
    /\ pc = "rows"
    /\ idx > Len(rows)
    /\ con' = "closed"
    /\ pc' = IF opts.out_db THEN "create_db" ELSE "write_html"
    /\ n_hosts' = 1
    /\ UNCHANGED << runVars, storeVars, fileVars, db, loopVars, walkVars, loadVars, ok,
                    endVars, stderr >>

\* get_parent_path returns `path`: the record is appended, the loop goes on.
AppendBookmark(path) ==
    /\ bmks' = Append(bmks, NewBookmark(rows[idx], path))
    /\ from_row' = Append(from_row, idx)
    /\ idx' = idx + 1
    /\ pc' = "rows"

\* as PrependTitle, with the title put after the path
PrependTitle_Appended(title, path) == path \o title \o Slash

\* parent_path = f"/{title}{parent_path}"
PrependTitle(title, path) == Slash \o title \o path

\* as ExactlyOneRow, with several rows let through
ExactlyOneRow_OrMore(found) == Len(found) >= 1

\* assert len(rows) == 1
ExactlyOneRow(found) == Len(found) = 1

\* as DepthExceeded, with the check left out
DepthExceeded_Never(d) == FALSE

\* depth += 1; if depth > max_depth
DepthExceeded(d) == d > max_depth

\* One turn of the loop of get_parent_path that runs the folder query.  The query
\* is not guarded: when the database is locked the sqlite3.OperationalError
\* "database is locked" ends the process.
GetParentPathLookup ==
    /\ pc = "walk"
    /\ parent_id > 0
    /\ ~DepthExceeded(depth + 1)
    /\ depth' = depth + 1
    /\ lookups' = lookups + 1
    /\ \E outcome \in {"ok", "locked"} :
        LET found == FolderQuery(places_db, parent_id) IN
        IF outcome = "locked"
        THEN /\ Raise("database is locked")
             /\ UNCHANGED << parent_id, parent_path >>
        ELSE IF ~ExactlyOneRow(found)
        THEN /\ Raise("AssertionError")
             /\ UNCHANGED << parent_id, parent_path >>
        ELSE /\ parent_id' = found[1].parent
             /\ parent_path' = IF found[1].parent > 0
                               THEN PrependTitle(PyStr(found[1].title), parent_path)
                               ELSE parent_path
             /\ UNCHANGED << pc, endVars >>
    /\ UNCHANGED << runVars, storeVars, fileVars, con, db, loopVars, loadVars, n_hosts, ok,
                    stderr >>

\* if depth > max_depth: return f"/(ERROR){parent_path}"
GetParentPathMaxDepth ==
    /\ pc = "walk"
    /\ parent_id > 0
    /\ DepthExceeded(depth + 1)
    /\ depth' = depth + 1
    /\ AppendBookmark(ErrorMark \o parent_path)
    /\ UNCHANGED << runVars, storeVars, fileVars, con, db, rows, parent_id, parent_path,
                    lookups, loadVars, n_hosts, ok, endVars, stderr >>

\* The loop ends (parent_id <= 0): return parent_path
GetParentPathReturn ==
    /\ pc = "walk"
    /\ parent_id <= 0
    /\ AppendBookmark(parent_path)
    /\ UNCHANGED << runVars, storeVars, fileVars, con, db, rows, walkVars, loadVars,
                    n_hosts, ok, endVars, stderr >>

(***************************************************************************)
(* main: reading the aggregation database (--from-sqlite).                 *)
(***************************************************************************)
\* con = sqlite3.connect(in_db); n_hosts, bookmarks = get_bookmarks_from_db(con)
ReadFromDb ==
    /\ pc = "from_db"
    /\ db' = "open"
    /\ IF {"hosts", "bookmarks", "view_bookmarks"} \subseteq db_objects
       THEN /\ n_hosts' = CountHosts(hosts)
            /\ bmks' = BookmarksFromDb(hosts, bookmarks)
            /\ pc' = "write_html"
            /\ UNCHANGED endVars
       ELSE /\ Raise("OperationalError")
            /\ UNCHANGED << n_hosts, bmks >>
    /\ UNCHANGED << runVars, storeVars, fileVars, con, rows, idx, from_row, walkVars, loadVars,
                    ok, stderr >>

(***************************************************************************)
(* main: loading the aggregation database (--output-sqlite).               *)
(***************************************************************************)
SchemaObjects == {"hosts", "bookmarks", "view_bookmarks"}
db_object_exists(objects, obj_name) == obj_name \in objects
\* as create_db_objects, without the view
create_db_objects_TablesOnly(objects) ==
    objects \cup { o \in {"hosts", "bookmarks"} : ~db_object_exists(objects, o) }

\* each object is created unless it exists
create_db_objects(objects) ==
    objects \cup { o \in SchemaObjects : ~db_object_exists(objects, o) }

\* db = sqlite3.connect(out_db); create_db_objects(db)
CreateDb ==
    /\ pc = "create_db"
    /\ db' = "open"
    /\ db_objects' = create_db_objects(db_objects)
    /\ pc' = "insert_check"
    /\ UNCHANGED << runVars, hosts, bookmarks, fileVars, con, loopVars, walkVars, loadVars,
                    n_hosts, ok, endVars, stderr >>

\* row = cur.fetchone() of the host query: is there a row
HostIsLoaded(host_rows, host_name) == HostQuery(host_rows, host_name) # <<>>

\* insert_bookmarks up to the host query.  When the host has a row the function
\* returns False; main sets ok and closes db.
InsertCheck ==
    /\ pc = "insert_check"
    /\ IF opts.host_name = <<>>
       THEN /\ Raise("AssertionError")
            /\ UNCHANGED << ok, db >>
       ELSE IF HostIsLoaded(hosts, opts.host_name)
       THEN /\ ok' = FALSE
            /\ db' = "closed"
            /\ pc' = "return"
            /\ UNCHANGED endVars
       ELSE /\ pc' = "insert_host"
            /\ UNCHANGED << ok, db, endVars >>
    /\ UNCHANGED << runVars, storeVars, fileVars, con, loopVars, walkVars, loadVars, n_hosts,
                    stderr >>

\* as UniqueHostName, the column without its constraint
UniqueHostName_None(host_rows, host_name) == TRUE

\* host_name TEXT UNIQUE
UniqueHostName(host_rows, host_name) == \A k \in 1..Len(host_rows) : host_rows[k].host_name # host_name

\* the hosts row of a load
NewHostRow(host_rows, o, now) ==
    HostRow(NewRowId(host_rows), o.host_name, PlacesPath, FormatSeconds(now))

\* INSERT INTO hosts ...; host_id = cur.lastrowid; con.commit().  The statement
\* may fail (exec_sql prints it and raises again), and fails when the host name
\* is not unique.
InsertHost ==
    /\ pc = "insert_host"
    /\ \E fails \in BOOLEAN :
        IF fails \/ ~UniqueHostName(hosts, opts.host_name)
        THEN /\ Raise("sqlite3.Error")
             /\ UNCHANGED << hosts, host_id >>
        ELSE /\ hosts' = Append(hosts, NewHostRow(hosts, opts, run_dt))
             /\ host_id' = NewRowId(hosts)
             /\ pc' = "insert_rows"
             /\ UNCHANGED endVars
    /\ UNCHANGED << runVars, bookmarks, db_objects, fileVars, con, db, loopVars, walkVars,
                    pending, n_hosts, ok, stderr >>

\* as NewBookmarkRow, with the rowid of the bookmarks row taken for the host id
NewBookmarkRow_LastRowId(bookmark_rows, hostid, bmk) ==
    BookmarkRow(NewRowId(bookmark_rows), NewRowId(bookmark_rows), bmk)

\* the bookmarks row inserted for bmk
NewBookmarkRow(bookmark_rows, hostid, bmk) == BookmarkRow(NewRowId(bookmark_rows), hostid, bmk)

\* One turn of the loop over the records: INSERT INTO bookmarks ..., not yet
\* committed.  When the statement fails the exception ends the process and the
\* rows inserted since the last commit are lost.
InsertBookmark ==
    /\ pc = "insert_rows"
    /\ Len(pending) < Len(bmks)
    /\ \E fails \in BOOLEAN :
        IF fails
        THEN /\ Raise("sqlite3.Error")
             /\ pending' = <<>>
        ELSE /\ pending' = Append(pending,
                                  NewBookmarkRow(bookmarks \o pending, host_id,
                                                 bmks[Len(pending) + 1]))
             /\ UNCHANGED << pc, endVars >>
    /\ UNCHANGED << runVars, storeVars, fileVars, con, db, loopVars, walkVars, host_id,
                    n_hosts, ok, stderr >>

\* After the loop: con.commit(), cur.close(), return True; main closes db.
InsertCommit ==
    /\ pc = "insert_rows"
    /\ Len(pending) = Len(bmks)
    /\ bookmarks' = bookmarks \o pending
    /\ pending' = <<>>
    /\ ok' = TRUE
    /\ db' = "closed"
    /\ pc' = "return"
    /\ loaded' = Append(loaded, [host_name |-> opts.host_name, records |-> bmks])
    /\ UNCHANGED << places_db, runs, run_dt, opts, pre, argv, procs, hosts, db_objects, fileVars, con,
                    loopVars, walkVars, host_id, n_hosts, endVars, stderr >>

(***************************************************************************)
(* main: the writers.                                                      *)
(***************************************************************************)

\* as SortedInPlace, the writer sorting a copy of the list
SortedInPlace_Copy(order) == UNCHANGED << bmks, from_row >>

\* bmks.sort(...) sorts the list of main in place: the records, and with each
\* record the row it was made from
SortedInPlace(order) ==
    /\ bmks' = Pick(bmks, order)
    /\ from_row' = IF Len(from_row) = Len(bmks) THEN Pick(from_row, order) ELSE from_row

\* write_bookmarks_html(str(opts.output_file), bookmarks).  The asserts on
\* host_name and asof_dt end the process at the first record that fails them,
\* with the file written up to that record.
WriteHtml ==
    /\ pc = "write_html"
    /\ \E order \in {LocationSort(bmks)} :
       \E sorted \in {Pick(bmks, order)} :
       \E bad \in {FirstUnnamed(sorted)} :
           /\ SortedInPlace(order)
           /\ files' = files \cup {opts.output_file}
           /\ IF bad = 0
              THEN /\ out' = [out EXCEPT !.html = LocationItems(sorted, 1, FALSE)]
                   /\ pc' = "write_md"
                   /\ UNCHANGED endVars
              ELSE /\ out' = [out EXCEPT !.html = LocationItems(SubSeq(sorted, 1, bad - 1), 1, FALSE)]
                   /\ Raise("AssertionError")
    /\ UNCHANGED << runVars, storeVars, con, db, rows, idx, walkVars, loadVars, n_hosts, ok,
                    stderr >>

\* if opts.md_file: write_bookmarks_markdown(str(opts.md_file), bookmarks)
WriteMarkdown ==
    /\ pc = "write_md"
    /\ IF opts.md_file # None
       THEN \E order \in {LocationSort(bmks)} :
            \E sorted \in {Pick(bmks, order)} :
                /\ SortedInPlace(order)
                /\ files' = files \cup {opts.md_file}
                /\ out' = [out EXCEPT !.md = LocationItems(sorted, 1, TRUE)]
       ELSE UNCHANGED << bmks, from_row, fileVars >>
    /\ pc' = "write_bydate"
    /\ UNCHANGED << runVars, storeVars, con, db, rows, idx, walkVars, loadVars, n_hosts, ok,
                    endVars, stderr >>

\* if opts.bydate_file: write_bookmarks_by_date_html(str(opts.bydate_file), n_hosts, bookmarks)
WriteByDateHtml ==
    /\ pc = "write_bydate"
    /\ IF opts.bydate_file # None
       THEN \E order \in {ByDateSort(bmks, TRUE)} :
            \E sorted \in {Pick(bmks, order)} :
                /\ SortedInPlace(order)
                /\ files' = files \cup {opts.bydate_file}
                /\ out' = [out EXCEPT !.bydate_html = ByDateItems(n_hosts, sorted, FALSE)]
       ELSE UNCHANGED << bmks, from_row, fileVars >>
    /\ pc' = "write_md_bydate"
    /\ UNCHANGED << runVars, storeVars, con, db, rows, idx, walkVars, loadVars, n_hosts, ok,
                    endVars, stderr >>

\* if opts.md_bydate: write_bookmarks_markdown_by_date(str(opts.md_bydate), n_hosts, bookmarks)
WriteMarkdownByDate ==
    /\ pc = "write_md_bydate"
    /\ IF opts.md_bydate # None
       THEN \E order \in {ByDateSort(bmks, FALSE)} :
            \E sorted \in {Pick(bmks, order)} :
                /\ SortedInPlace(order)
                /\ files' = files \cup {opts.md_bydate}
                /\ out' = [out EXCEPT !.bydate_md = ByDateItems(n_hosts, sorted, TRUE)]
       ELSE UNCHANGED << bmks, from_row, fileVars >>
    /\ pc' = "return"
    /\ UNCHANGED << runVars, storeVars, con, db, rows, idx, walkVars, loadVars, n_hosts, ok,
                    endVars, stderr >>

(***************************************************************************)
(* main returns, and the script ends.                                      *)
(***************************************************************************)
\* if ok: return 0; return 1
MainResult(is_ok) == IF is_ok THEN 0 ELSE 1

\* if __name__ == "__main__": main()   -- the value main returns is dropped
ScriptStatus(main_result) == 0

MainReturn ==
    /\ pc = "return"
    /\ result' = MainResult(ok)
    /\ exit_code' = ScriptStatus(MainResult(ok))
    /\ error' = error
    /\ pc' = "exited"
    /\ UNCHANGED << runVars, storeVars, fileVars, con, db, loopVars, walkVars, loadVars,
                    n_hosts, ok, stderr >>

\* The program is run again, on the same places database and the same
\* aggregation database, not before the run that ended.
NewRun ==
    /\ pc = "exited"
    /\ runs < MaxRuns
    /\ runs' = runs + 1
    /\ \E now \in RunTimes :
        /\ now >= run_dt
        /\ run_dt' = now
    /\ opts' = NoOpts
    /\ pc' = "get_opts"
    /\ con' = "none"
    /\ db' = "none"
    /\ rows' = <<>>
    /\ idx' = 1
    /\ bmks' = <<>>
    /\ parent_id' = 0
    /\ depth' = 0
    /\ parent_path' = <<>>
    /\ host_id' = 0
    /\ pending' = <<>>
    /\ n_hosts' = 0
    /\ ok' = TRUE
    /\ result' = -1
    /\ exit_code' = -1
    /\ error' = "none"
    /\ stderr' = {}
    /\ lookups' = 0
    /\ from_row' = <<>>
    /\ files' = {}
    /\ out' = NoOutput
    /\ pre' = [hosts |-> hosts, bookmarks |-> bookmarks, objects |-> db_objects]
    /\ argv' = <<>>
    /\ procs' = procs
    /\ UNCHANGED << places_db, storeVars, loaded >>

\* the steps of a run that reads the places database
Export ==
    \/ GetOpts
    \/ GetBookmarksQuery
    \/ GetBookmarksRow
    \/ GetBookmarksReturn
    \/ GetParentPathLookup
    \/ GetParentPathMaxDepth
    \/ GetParentPathReturn
    \/ CreateDb
    \/ InsertCheck
    \/ InsertHost
    \/ InsertBookmark
    \/ InsertCommit
    \/ WriteHtml
    \/ WriteMarkdown
    \/ WriteByDateHtml
    \/ WriteMarkdownByDate
    \/ MainReturn

Next == Export \/ ReadFromDb \/ NewRun

\* runs of the program, one after the other, on one aggregation database
Spec == Init /\ [][Next]_vars

\* one run on each places database of the generated families; the aggregation
\* database does not exist when it starts
SpecExtract == InitExtract /\ [][Export]_vars

(***************************************************************************)
(* Rendering an aggregation database (--from-sqlite).                      *)
(***************************************************************************)
HostCapital == <<"B", "e", "t", "a">>
TitleApple == <<"a", "p", "p", "l", "e">>
TitleLowerHome == <<"h", "o", "m", "e">>
Title200 == [k \in 1..200 |-> "t"]
Title179 == [k \in 1..179 |-> "s"]
PathUpper == <<"/", "F", "-", "2", "/">>
PathLower == <<"/", "a", "/">>

\* The hosts rows: alpha, Beta and beta, loaded at different times.
RenderHostRows ==
    << HostRow(1, HostAlpha, PlacesPath, FormatSeconds(3600)),
       HostRow(2, HostCapital, PlacesPath, FormatSeconds(7200)),
       HostRow(3, HostBeta, PlacesPath, FormatSeconds(7260)) >>

\* What a bookmarks row may hold: its host id and the record it was inserted
\* for.  Titles, paths and host names that differ by case, records that agree
\* in the keys of a sort and differ elsewhere, and long titles.
RowChoice(hostid, title, url, path, added) ==
    [host_id |-> hostid,
     bmk |-> Bookmark(title, url, path, from_moz_date(added * MicrosPerSecond), <<>>, <<>>)]
RowChoices ==
    { RowChoice(1, TitleHome, UrlHome, Slash, 100),
      RowChoice(1, TitleApple, UrlHome, Slash, 100),
      RowChoice(1, TitleHome, UrlPage2, Slash, 200),
      RowChoice(1, TitleLowerHome, UrlHome, Slash, 100),
      RowChoice(1, Title200, UrlHome, PathLower, 300),
      RowChoice(1, Title179, UrlPage1, PathUpper, 300),
      RowChoice(2, TitleHome, UrlHome, Slash, 100),
      RowChoice(2, TitleP1, UrlPage1, PathUpper, 300),
      RowChoice(2, TitleP2, UrlPage2, PathLower, 200),
      RowChoice(3, TitleHome, UrlHome, Slash, 100) }

\* The aggregation databases that are rendered: the first n_rows hosts rows,
\* and up to MaxRows bookmarks rows of these hosts in any order.  A host may
\* have no bookmarks row (its places file held no http bookmark).
RenderStores ==
    { [hosts |-> SubSeq(RenderHostRows, 1, n),
       bookmarks |-> [k \in 1..Len(chosen) |-> BookmarkRow(k, chosen[k].host_id, chosen[k].bmk)]] :
        n \in 1..Len(RenderHostRows),
        chosen \in UNION { [1..m -> RowChoices] : m \in 0..MaxRows } }

\* the command lines of the runs that render: --from-sqlite with every choice of
\* --by-date and --md
RenderArgs == { args \in ArgChoices : args.source = "found" /\ args.source_db /\ ~args.use_mtime }

\* A run that renders an aggregation database, from the return of get_opts on.
InitRender ==
    /\ places_db = TestDb
    /\ runs = 1
    /\ \E store \in RenderStores :
        /\ \A k \in 1..Len(store.bookmarks) : store.bookmarks[k].host_id <= Len(store.hosts)
        /\ hosts = store.hosts
        /\ bookmarks = store.bookmarks
        /\ pre = [hosts |-> store.hosts, bookmarks |-> store.bookmarks, objects |-> SchemaObjects]
    /\ db_objects = SchemaObjects
    /\ loaded = <<>>
    /\ run_dt = 3 * 3600
    /\ \E args \in RenderArgs :
        /\ argv = <<args>>
        /\ opts = AppOptions(args, places_db.mtime, run_dt)
    /\ pc = "from_db"
    /\ con = "none"
    /\ db = "none"
    /\ rows = <<>>
    /\ idx = 1
    /\ bmks = <<>>
    /\ parent_id = 0
    /\ depth = 0
    /\ parent_path = <<>>
    /\ host_id = 0
    /\ pending = <<>>
    /\ n_hosts = 0
    /\ ok = TRUE
    /\ result = -1
    /\ exit_code = -1
    /\ error = "none"
    /\ stderr = {}
    /\ files = {}
    /\ out = NoOutput
    /\ lookups = 0
    /\ from_row = <<>>
    /\ procs = <<>>

\* the steps of a run that renders an aggregation database
Render ==
    \/ ReadFromDb
    \/ WriteHtml
    \/ WriteMarkdown
    \/ WriteByDateHtml
    \/ WriteMarkdownByDate
    \/ MainReturn

SpecRender == InitRender /\ [][Render]_vars

(***************************************************************************)
(* Rendering texts that hold the characters to escape.                     *)
(***************************************************************************)
\* the characters of the three entities
EscapeChars == {"&", "<", ">", "l", "t", ";"}
\* every text of at most MaxText of these characters
EscapeTexts == UNION { [1..n -> EscapeChars] : n \in 0..MaxText }

\* A run that renders an aggregation database with one host and one bookmark,
\* whose folder path is any of the texts; the writers pass the path to htm_txt.
InitEscape ==
    /\ places_db = TestDb
    /\ runs = 1
    /\ hosts = SubSeq(RenderHostRows, 1, 1)
    /\ \E text \in EscapeTexts :
        bookmarks = << BookmarkRow(1, 1, Bookmark(TitleHome, UrlHome, text,
                                                  from_moz_date(100 * MicrosPerSecond),
                                                  <<>>, <<>>)) >>
    /\ pre = [hosts |-> hosts, bookmarks |-> bookmarks, objects |-> SchemaObjects]
    /\ db_objects = SchemaObjects
    /\ loaded = <<>>
    /\ run_dt = 3 * 3600
    /\ \E args \in RenderArgs :
        /\ argv = <<args>>
        /\ opts = AppOptions(args, places_db.mtime, run_dt)
    /\ pc = "from_db"
    /\ con = "none"
    /\ db = "none"
    /\ rows = <<>>
    /\ idx = 1
    /\ bmks = <<>>
    /\ parent_id = 0
    /\ depth = 0
    /\ parent_path = <<>>
    /\ host_id = 0
    /\ pending = <<>>
    /\ n_hosts = 0
    /\ ok = TRUE
    /\ result = -1
    /\ exit_code = -1
    /\ error = "none"
    /\ stderr = {}
    /\ files = {}
    /\ out = NoOutput
    /\ lookups = 0
    /\ from_row = <<>>
    /\ procs = <<>>

SpecEscape == InitEscape /\ [][Render]_vars

(***************************************************************************)
(* A run on an aggregation database that holds some of its objects.        *)
(***************************************************************************)
\* a table that is not of the program
NotesTable == "notes"

\* The aggregation databases a run may find: any of the tables and the view
\* exist or not, beside a table of another program or not; a table that exists
\* is empty or holds the row of an earlier load.
PartialStores ==
    { store \in [objects : SUBSET (SchemaObjects \cup {NotesTable}),
                 hosts : {<<>>, SubSeq(RenderHostRows, 1, 1)},
                 bookmarks : {<<>>, <<BookmarkRow(1, 1, Bookmark(TitleHome, UrlHome, Slash,
                                                                  from_moz_date(100 * MicrosPerSecond),
                                                                  <<>>, <<>>))>>}] :
        /\ store.hosts # <<>> => "hosts" \in store.objects
        /\ store.bookmarks # <<>> => "bookmarks" \in store.objects }

PartialStoreDbs == { TestDb, ChainDb(max_depth + 1) }

InitStore ==
    /\ places_db \in PartialStoreDbs
    /\ runs = 1
    /\ \E now \in RunTimes : StartOfRun(now)
    /\ \E store \in PartialStores :
        /\ hosts = store.hosts
        /\ bookmarks = store.bookmarks
        /\ db_objects = store.objects
        /\ pre = store
    /\ loaded = <<>>

\* the steps of one run, whatever it reads
OneRun == Export \/ ReadFromDb

SpecStore == InitStore /\ [][OneRun]_vars

(***************************************************************************)
(* Two invocations that load the same aggregation database at the same     *)
(* time.  Each has its own connection: what it has inserted and not        *)
(* committed is seen by itself only, and at most one connection writes at  *)
(* a time; a statement that needs to write while the other connection      *)
(* writes waits, and raises "database is locked" when its timeout passes.  *)
(***************************************************************************)
Procs == {1, 2}
\* the order in which create_db_objects looks at the objects
ObjectOrder == << "hosts", "bookmarks", "view_bookmarks" >>
\* the records of the two invocations
ProcRecords ==
    << << Bookmark(TitleHome, UrlHome, Slash, from_moz_date(100 * MicrosPerSecond),
                   <<>>, <<>>) >>,
       << Bookmark(TitleP1, UrlPage1, Slash, from_moz_date(100 * MicrosPerSecond),
                   <<>>, <<>>),
          Bookmark(TitleP2, UrlPage1, Slash, from_moz_date(200 * MicrosPerSecond),
                   <<>>, <<>>) >> >>

\* an invocation at the call of create_db_objects
ProcStart(p, host_name) ==
    [pc |-> "exists", obj |-> 1, host_name |-> host_name, records |-> ProcRecords[p],
     host_id |-> 0, tx_hosts |-> <<>>, tx_bookmarks |-> <<>>, writing |-> FALSE,
     ok |-> TRUE, error |-> "none", stored |-> [hosts |-> 0, bookmarks |-> 0]]

\* everything but the aggregation database and the invocations
mainVars ==
    << places_db, files, out, runs, run_dt, opts, pc, con, db, rows, idx, bmks, parent_id,
       depth, parent_path, host_id, pending, n_hosts, ok, result, exit_code, error, stderr,
       lookups, from_row, loaded, pre, argv >>

\* The aggregation database does not exist, or an earlier run has made it.
InitConcurrent ==
    /\ places_db = TestDb
    /\ runs = 1
    /\ run_dt = 3600 + 61
    /\ opts = NoOpts
    /\ pc = "insert_bookmarks"
    /\ con = "closed"
    /\ db = "open"
    /\ rows = <<>>
    /\ idx = 1
    /\ bmks = <<>>
    /\ parent_id = 0
    /\ depth = 0
    /\ parent_path = <<>>
    /\ host_id = 0
    /\ pending = <<>>
    /\ n_hosts = 0
    /\ ok = TRUE
    /\ result = -1
    /\ exit_code = -1
    /\ error = "none"
    /\ stderr = {}
    /\ files = {}
    /\ out = NoOutput
    /\ lookups = 0
    /\ from_row = <<>>
    /\ argv = <<>>
    /\ loaded = <<>>
    /\ hosts = <<>>
    /\ bookmarks = <<>>
    /\ db_objects \in {{}, SchemaObjects}
    /\ pre = [hosts |-> hosts, bookmarks |-> bookmarks, objects |-> db_objects]
    /\ \E names \in [Procs -> HostNames] : procs = [p \in Procs |-> ProcStart(p, names[p])]

\* no other connection writes
LockFree(p) == \A q \in Procs \ {p} : ~procs[q].writing

\* An exception ends the invocation: its connection is closed with the
\* process, and what it had not committed is rolled back.
ProcRaised(p, exception) ==
    [procs[p] EXCEPT !.pc = "failed", !.error = exception, !.tx_hosts = <<>>,
                     !.tx_bookmarks = <<>>, !.writing = FALSE]

\* create_db_objects: db_object_exists(con, ..., name) for the next object; when
\* it exists the function goes on to the object after it
ProcObjectExists(p) ==
    /\ procs[p].pc = "exists"
    /\ procs' = [procs EXCEPT ![p] =
            IF ~db_object_exists(db_objects, ObjectOrder[procs[p].obj])
            THEN [@ EXCEPT !.pc = "create"]
            ELSE IF procs[p].obj < Len(ObjectOrder)
            THEN [@ EXCEPT !.obj = @ + 1]
            ELSE [@ EXCEPT !.pc = "host_query"]]
    /\ UNCHANGED << mainVars, storeVars >>

\* create_db_objects: CREATE TABLE / CREATE VIEW for an object that was not
\* found.  The statement fails when the object exists by now, and when the
\* other connection writes for longer than the timeout.
ProcCreateObject(p) ==
    /\ procs[p].pc = "create"
    /\ IF db_object_exists(db_objects, ObjectOrder[procs[p].obj])
       THEN /\ procs' = [procs EXCEPT ![p] = ProcRaised(p, "OperationalError")]
            /\ UNCHANGED db_objects
       ELSE IF ~LockFree(p)
       THEN /\ procs' = [procs EXCEPT ![p] = ProcRaised(p, "database is locked")]
            /\ UNCHANGED db_objects
       ELSE /\ db_objects' = db_objects \cup {ObjectOrder[procs[p].obj]}
            /\ procs' = [procs EXCEPT ![p] =
                    IF procs[p].obj < Len(ObjectOrder)
                    THEN [@ EXCEPT !.pc = "exists", !.obj = @ + 1]
                    ELSE [@ EXCEPT !.pc = "host_query"]]
    /\ UNCHANGED << mainVars, hosts, bookmarks >>

\* insert_bookmarks: the host query, on the committed rows
ProcHostQuery(p) ==
    /\ procs[p].pc = "host_query"
    /\ procs' = [procs EXCEPT ![p] =
            IF HostIsLoaded(hosts, procs[p].host_name)
            THEN [@ EXCEPT !.pc = "done", !.ok = FALSE]
            ELSE [@ EXCEPT !.pc = "insert_host"]]
    /\ UNCHANGED << mainVars, storeVars >>

\* insert_bookmarks: INSERT INTO hosts; host_id = cur.lastrowid.  The statement
\* opens a transaction of the connection.  It fails when the committed rows
\* hold the host name (UNIQUE), whatever the host query had found.
ProcInsertHost(p) ==
    /\ procs[p].pc = "insert_host"
    /\ \E fails \in BOOLEAN :
        procs' = [procs EXCEPT ![p] =
            IF ~LockFree(p) THEN ProcRaised(p, "database is locked")
            ELSE IF ~UniqueHostName(hosts, procs[p].host_name)
            THEN ProcRaised(p, "IntegrityError")
            ELSE IF fails THEN ProcRaised(p, "sqlite3.Error")
            ELSE [@ EXCEPT !.pc = "commit_host",
                           !.tx_hosts = << NewHostRow(hosts, procs[p], run_dt) >>,
                           !.host_id = NewRowId(hosts),
                           !.writing = TRUE]]
    /\ UNCHANGED << mainVars, storeVars >>

\* insert_bookmarks: con.commit() after the hosts row
ProcCommitHost(p) ==
    /\ procs[p].pc = "commit_host"
    /\ hosts' = hosts \o procs[p].tx_hosts
    /\ procs' = [procs EXCEPT ![p] =
            [@ EXCEPT !.pc = "insert_rows", !.tx_hosts = <<>>, !.writing = FALSE,
                      !.stored.hosts = @ + 1]]
    /\ UNCHANGED << mainVars, bookmarks, db_objects >>

\* insert_bookmarks: one turn of the loop, INSERT INTO bookmarks
ProcInsertBookmark(p) ==
    /\ procs[p].pc = "insert_rows"
    /\ Len(procs[p].tx_bookmarks) < Len(procs[p].records)
    /\ \E fails \in BOOLEAN :
        procs' = [procs EXCEPT ![p] =
            IF ~LockFree(p) THEN ProcRaised(p, "database is locked")
            ELSE IF fails THEN ProcRaised(p, "sqlite3.Error")
            ELSE [@ EXCEPT !.tx_bookmarks =
                                Append(@, NewBookmarkRow(bookmarks \o procs[p].tx_bookmarks,
                                                         procs[p].host_id,
                                                         procs[p].records[Len(@) + 1])),
                           !.writing = TRUE]]
    /\ UNCHANGED << mainVars, storeVars >>

\* insert_bookmarks: con.commit() after the loop; return True
ProcCommit(p) ==
    /\ procs[p].pc = "insert_rows"
    /\ Len(procs[p].tx_bookmarks) = Len(procs[p].records)
    /\ bookmarks' = bookmarks \o procs[p].tx_bookmarks
    /\ procs' = [procs EXCEPT ![p] =
            [@ EXCEPT !.pc = "done", !.ok = TRUE, !.tx_bookmarks = <<>>, !.writing = FALSE,
                      !.stored.bookmarks = Len(procs[p].tx_bookmarks)]]
    /\ UNCHANGED << mainVars, hosts, db_objects >>

\* a step of one of the invocations
Concurrent ==
    \E p \in Procs :
        \/ ProcObjectExists(p)
        \/ ProcCreateObject(p)
        \/ ProcHostQuery(p)
        \/ ProcInsertHost(p)
        \/ ProcCommitHost(p)
        \/ ProcInsertBookmark(p)
        \/ ProcCommit(p)

SpecConcurrent == InitConcurrent /\ [][Concurrent]_vars

(***************************************************************************)
(* Properties.                                                             *)
(***************************************************************************)
IsPrefix(s, t) == Len(s) <= Len(t) /\ SubSeq(t, 1, Len(s)) = s
HasHostName(host_rows, host_name) == \E k \in 1..Len(host_rows) : host_rows[k].host_name = host_name
Occurrences(s, x) == Cardinality({k \in 1..Len(s) : s[k] = x})
SameBag(s, t) ==
    /\ Len(s) = Len(t)
    /\ \A k \in 1..Len(s) : Occurrences(s, s[k]) = Occurrences(t, s[k])

\* the run is a load into the aggregation database and has gone past the host
\* query of insert_bookmarks
LoadDecided ==
    /\ opts.out_db
    /\ ~opts.in_db
    /\ pc \in {"insert_host", "insert_rows", "return", "exited"}
    /\ db # "none"
\* insert_bookmarks returned True
LoadAccepted == LoadDecided /\ pc \in {"return", "exited"} /\ ok /\ error = "none"

\* C1: insert_bookmarks called with a host name that already has a row in hosts
\* returns False and leaves the tables hosts and bookmarks as they were before
\* the call, whatever the records.
C1_DuplicateHostRejected ==
    (LoadDecided /\ HasHostName(pre.hosts, opts.host_name))
        => /\ pc \in {"return", "exited"}
           /\ ~ok
           /\ error = "none"
           /\ hosts = pre.hosts
           /\ bookmarks = pre.bookmarks
           /\ pending = <<>>

C1_Witness ==
    /\ LoadDecided
    /\ pc = "exited"
    /\ HasHostName(pre.hosts, opts.host_name)
    /\ Len(pre.bookmarks) > 0
    /\ Len(bmks) > 1
    /\ result = 1

\* C2: the aggregation database only grows, by whole loads: no step changes or
\* removes a committed row of hosts or bookmarks, and a load that is accepted has
\* added one hosts row, for a host name that had none, with a new id, and one
\* bookmarks row per record, in the records' order, each with that id as host_id.
RowOf(b, bmk) ==
    /\ b.title = bmk.title
    /\ b.url = bmk.url
    /\ b.parent_path = bmk.parent_path
    /\ b.when_added = bmk.when_added
C2_AcceptedLoadAdded ==
    LoadAccepted =>
        /\ ~HasHostName(pre.hosts, opts.host_name)
        /\ Len(hosts) = Len(pre.hosts) + 1
        /\ IsPrefix(pre.hosts, hosts)
        /\ hosts[Len(hosts)].host_name = opts.host_name
        /\ \A k \in 1..Len(pre.hosts) : pre.hosts[k].id # hosts[Len(hosts)].id
        /\ Len(bookmarks) = Len(pre.bookmarks) + Len(bmks)
        /\ IsPrefix(pre.bookmarks, bookmarks)
        /\ \A k \in 1..Len(bmks) :
              LET b == bookmarks[Len(pre.bookmarks) + k]
              IN  b.host_id = hosts[Len(hosts)].id /\ RowOf(b, bmks[k])
C2_AppendOnly ==
    /\ [] C2_AcceptedLoadAdded
    /\ [][IsPrefix(hosts, hosts') /\ IsPrefix(bookmarks, bookmarks')]_vars

C2_Witness ==
    /\ LoadAccepted
    /\ Len(pre.hosts) = 1
    /\ Len(pre.bookmarks) > 0
    /\ Len(bmks) > 1
    /\ runs = 3

\* C3: what get_bookmarks_from_db returns: the host count is the number of rows
\* of hosts, and for each accepted load the records of its host are, as a bag,
\* the records of the load in title, url, parent_path, when_added and host_name,
\* each with the created value of the host's row as asof_dt; there is no other
\* record.
Inserted(bmk) ==
    [title |-> bmk.title, url |-> bmk.url, parent_path |-> bmk.parent_path,
     when_added |-> bmk.when_added, host_name |-> bmk.host_name]
OfHost(records, host_name) == SelectSeq(records, LAMBDA r : r.host_name = host_name)
Projected(records) == [k \in 1..Len(records) |-> Inserted(records[k])]
CreatedOf(host_rows, host_name) ==
    (CHOOSE h \in {host_rows[k] : k \in 1..Len(host_rows)} : h.host_name = host_name).created
ReadBack == opts.in_db /\ pc \in {"write_html", "write_md", "write_bydate", "write_md_bydate", "return", "exited"} /\ error = "none"
C3_RoundTrip ==
    ReadBack =>
        /\ n_hosts = Len(hosts)
        /\ \A k \in 1..Len(loaded) :
              LET got == OfHost(bmks, loaded[k].host_name)
              IN  /\ SameBag(Projected(got), Projected(loaded[k].records))
                  /\ \A j \in 1..Len(got) : got[j].asof_dt = CreatedOf(hosts, loaded[k].host_name)
        /\ \A j \in 1..Len(bmks) : \E k \in 1..Len(loaded) : loaded[k].host_name = bmks[j].host_name

C3_Witness ==
    /\ ReadBack
    /\ Len(loaded) = 2
    /\ Len(hosts) = 2
    /\ Len(bmks) = 6

(***************************************************************************)
(* The folder forest, read top-down.                                       *)
(***************************************************************************)
RowsOfId(placesdb, id) == {k \in 1..Len(placesdb.bookmarks) : placesdb.bookmarks[k].id = id}
TheFolder(placesdb, id) == placesdb.bookmarks[CHOOSE k \in RowsOfId(placesdb, id) : TRUE]

\* every id on the chain from id up has one row, and the chain ends at 0
RECURSIVE ChainEndsAtRoot(_, _, _)
ChainEndsAtRoot(placesdb, id, fuel) ==
    IF id = 0 THEN TRUE
    ELSE /\ fuel > 0
         /\ Cardinality(RowsOfId(placesdb, id)) = 1
         /\ ChainEndsAtRoot(placesdb, TheFolder(placesdb, id).parent, fuel - 1)
WellFormedAt(placesdb, id) == id > 0 /\ ChainEndsAtRoot(placesdb, id, Len(placesdb.bookmarks))

\* the number of folders on the chain from the top-level folder down to id
RECURSIVE Depth(_, _)
Depth(placesdb, id) ==
    IF id = 0 THEN 0 ELSE 1 + Depth(placesdb, TheFolder(placesdb, id).parent)

\* "/" and then "<title>/" for each folder below the top-level folder, down to id
RECURSIVE PathBelowTop(_, _)
PathBelowTop(placesdb, id) ==
    LET f == TheFolder(placesdb, id)
    IN  IF f.parent = 0 THEN Slash
        ELSE PathBelowTop(placesdb, f.parent) \o PyStr(f.title) \o Slash

\* the slashes in the titles of the folders below the top-level folder, down to id
RECURSIVE TitleSlashes(_, _)
TitleSlashes(placesdb, id) ==
    LET f == TheFolder(placesdb, id)
    IN  IF f.parent = 0 THEN 0
        ELSE TitleSlashes(placesdb, f.parent) + Count(PyStr(f.title), "/")

Segments(path) == Count(path, "/") - 1

\* the run reads the places database
Extracting == ~opts.in_db
\* the folder the k-th record lies in
FolderOfRecord(k) == rows[from_row[k]].parent

\* C4, as claimed: the path of a folder of a well-formed forest starts and ends
\* with "/" and has as many segments as the folder's depth, the top-level folder
\* included.
C4_SegmentsEqualDepth ==
    Extracting =>
        \A k \in 1..Len(bmks) :
            WellFormedAt(places_db, FolderOfRecord(k)) =>
                /\ StartsWith(bmks[k].parent_path, Slash)
                /\ EndsWith(bmks[k].parent_path, Slash)
                /\ Segments(bmks[k].parent_path) = Depth(places_db, FolderOfRecord(k))

\* C4, amended: for a folder of a well-formed forest at depth 99 or less the path
\* is "/" and then "<title>/" for each folder from the child of the top-level
\* folder down to the folder: the top-level folder (parent 0) gives no segment.
\* The path starts and ends with "/", and its segments are one fewer than the
\* depth, plus one for each "/" in those titles.
C4_PathBelowTopLevel ==
    Extracting =>
        \A k \in 1..Len(bmks) :
            (/\ WellFormedAt(places_db, FolderOfRecord(k))
             /\ Depth(places_db, FolderOfRecord(k)) <= 99) =>
                /\ bmks[k].parent_path = PathBelowTop(places_db, FolderOfRecord(k))
                /\ StartsWith(bmks[k].parent_path, Slash)
                /\ EndsWith(bmks[k].parent_path, Slash)
                /\ Segments(bmks[k].parent_path) =
                      Depth(places_db, FolderOfRecord(k)) - 1
                      + TitleSlashes(places_db, FolderOfRecord(k))

C4_Witness ==
    /\ Extracting
    /\ places_db = TestDb
    /\ Len(bmks) = 3
    /\ bmks[3].parent_path = Slash \o TitleF2 \o Slash \o TitleF2a \o Slash
    /\ Depth(places_db, FolderOfRecord(3)) = 3

\* C5, as claimed: every record of get_bookmarks has a url that begins with
\* http:// or https://.
C5_OnlyHttpUrls ==
    Extracting =>
        \A k \in 1..Len(bmks) :
            StartsWith(bmks[k].url, HttpScheme) \/ StartsWith(bmks[k].url, HttpsScheme)

\* C6, as claimed: a record whose row has a NULL or empty title has the url in
\* parentheses as title, and no record has an empty title.
C6_TitleFallsBackToUrl ==
    Extracting =>
        \A k \in 1..Len(bmks) :
            LET title == rows[from_row[k]].title
            IN  /\ (title.null \/ title.v = <<>>) => bmks[k].title = <<"(">> \o bmks[k].url \o <<")">>
                /\ bmks[k].title # <<>>

\* C7: get_parent_path ends on every folder table.  While it runs it has made
\* as many folder queries as it has counted turns, at most 99, and it can take a
\* step; a step that stays in the loop is one more query, and with fewer than 99
\* queries made and an id above 0 the next step is a query.  With 99 queries made
\* and an id above 0 still in hand it returns "/(ERROR)" and the path gathered so
\* far, raising nothing, and the loop over the rows goes on with the next row;
\* when the id reaches 0 it returns the path gathered, unmarked.
C7_WalkInBounds ==
    pc = "walk" =>
        /\ lookups = depth
        /\ lookups <= 99
        /\ ENABLED (GetParentPathLookup \/ GetParentPathMaxDepth \/ GetParentPathReturn)
C7_WalkStep ==
    pc = "walk" =>
        /\ pc' = "walk" => (depth' = depth + 1 /\ lookups' = lookups + 1)
        /\ (parent_id > 0 /\ lookups < 99) =>
              /\ lookups' = lookups + 1
              /\ pc' \in {"walk", "exited"}
        /\ (parent_id > 0 /\ lookups = 99) =>
              /\ pc' = "rows"
              /\ error' = "none"
              /\ exit_code' = -1
              /\ lookups' = 99
              /\ idx' = idx + 1
              /\ Len(bmks') = Len(bmks) + 1
              /\ bmks'[Len(bmks')].parent_path = ErrorMark \o parent_path
        /\ parent_id <= 0 =>
              /\ pc' = "rows"
              /\ error' = "none"
              /\ idx' = idx + 1
              /\ Len(bmks') = Len(bmks) + 1
              /\ bmks'[Len(bmks')].parent_path = parent_path
C7_BoundedWalk == [] C7_WalkInBounds /\ [][C7_WalkStep]_vars

\* a folder table with a cycle: the first record carries the marked path, the
\* second row was handled after it, and the run ended well
C7_Witness ==
    /\ pc = "exited"
    /\ exit_code = 0
    /\ error = "none"
    /\ ~ChainEndsAtRoot(places_db, rows[1].parent, Len(places_db.bookmarks))
    /\ Len(bmks) = 2
    /\ StartsWith(bmks[1].parent_path, ErrorMark)
    /\ from_row = << 1, 2 >>
    /\ opts.output_file \in files

\* C8: a folder query that gives no row or several rows ends the run with an
\* error: main returns nothing, no output file is written and the aggregation
\* database is not touched.
C8_Aborted ==
    error = "AssertionError" =>
        /\ pc = "exited"
        /\ exit_code = 1
        /\ result = -1
        /\ files = {}
        /\ db = "none"
        /\ db_objects = {}
        /\ hosts = pre.hosts
        /\ bookmarks = pre.bookmarks
C8_QueryStep ==
    (/\ pc = "walk"
     /\ lookups' = lookups + 1
     /\ Cardinality(RowsOfId(places_db, parent_id)) # 1) =>
        /\ pc' = "exited"
        /\ error' \in {"AssertionError", "database is locked"}
        /\ exit_code' = 1
        /\ bmks' = bmks
C8_BadLookupAborts == [] C8_Aborted /\ [][C8_QueryStep]_vars

C8_Witness ==
    /\ error = "AssertionError"
    /\ places_db = DuplicateDb
    /\ lookups = 2
    /\ opts.out_db

\* C9, as claimed: main returns 0 when the run completes and 1 when the load is
\* rejected; the process ends with status 0 on success and with status 1 when
\* the run ended on an error and when the load was rejected.
C9_ExitCodes ==
    pc = "exited" =>
        /\ (error = "none" /\ ok) => (result = 0 /\ exit_code = 0)
        /\ (error = "none" /\ ~ok) => (result = 1 /\ exit_code = 1)
        /\ error # "none" => exit_code = 1

\* C10, as claimed: when a query of the places database fails because the
\* database is locked, the run closes the connection, writes the message to
\* standard error and ends with status 1, with no output file and no row added.
C10_LockedIsReported ==
    (error = "database is locked" \/ "database is locked" \in stderr) =>
        /\ pc = "exited"
        /\ con = "closed"
        /\ "database is locked" \in stderr
        /\ exit_code = 1
        /\ files = {}
        /\ hosts = pre.hosts
        /\ bookmarks = pre.bookmarks

(***************************************************************************)
(* The writers.                                                            *)
(***************************************************************************)
\* the records of a file, in the order in which they were written
Emitted(items) == SelectSeq(items, LAMBDA it : it.kind = "bookmark")
\* the file holds one record for each record of recs, in the order of recs
HoldsRecords(items, recs) ==
    /\ Len(Emitted(items)) = Len(recs)
    /\ \A k \in 1..Len(recs) :
        /\ Emitted(items)[k].url = htm_url(recs[k].url)
        /\ Emitted(items)[k].when_added = recs[k].when_added
        /\ Emitted(items)[k].parent_path = htm_txt(recs[k].parent_path)
\* the records as get_bookmarks_from_db returned them
Arrived == BookmarksFromDb(hosts, bookmarks)
\* the state right after a writer has returned
AfterHtml == pc = "write_md" /\ error = "none"
AfterMarkdown == pc = "write_bydate" /\ opts.md_file # None
AfterByDateHtml == pc = "write_md_bydate" /\ opts.bydate_file # None
AfterMarkdownByDate == pc = "return" /\ opts.md_bydate # None /\ error = "none"

TextLeq(s, t) == s = t \/ TextLess(s, t)
\* (host_name, parent_path, title), lower-cased, of a is less than or equal to that of b
TripleLeq(a, b) ==
    \/ TextLess(Lower(a.host_name), Lower(b.host_name))
    \/ /\ Lower(a.host_name) = Lower(b.host_name)
       /\ \/ TextLess(Lower(a.parent_path), Lower(b.parent_path))
          \/ /\ Lower(a.parent_path) = Lower(b.parent_path)
             /\ TextLeq(Lower(a.title), Lower(b.title))
InLocationOrder(recs) == \A k \in 1..(Len(recs) - 1) : TripleLeq(recs[k], recs[k + 1])

\* C11: the HTML and Markdown writers by location write every record, and write
\* the records sorted by host name, then folder path, then title, each compared
\* without regard to case: of two records written one after the other the
\* lower-cased triple of the first is less than or equal to that of the second.
C11_LocationOrder ==
    /\ AfterHtml =>
        /\ SameBag(bmks, Arrived)
        /\ InLocationOrder(bmks)
        /\ HoldsRecords(out.html, bmks)
    /\ AfterMarkdown =>
        /\ SameBag(bmks, Arrived)
        /\ InLocationOrder(bmks)
        /\ HoldsRecords(out.md, bmks)

\* Three records of two hosts arrive in an order in which the second does not
\* follow the first when case is ignored, and both writers have written them.
C11_Witness ==
    /\ AfterMarkdown
    /\ Len(bmks) = 3
    /\ ~InLocationOrder(Arrived)
    /\ \E k \in 1..3 : bmks[k].host_name = HostCapital
    /\ \E k \in 1..3 : bmks[k].title = TitleApple


\* a comes before b, or may: when_added first (the later first when
\* newest_first), then the URL, then the host name, lower-cased when fold_case
HostNameLeq(s, t, fold_case) == IF fold_case THEN TextLeq(Lower(s), Lower(t)) ELSE TextLeq(s, t)
DateLeq(a, b, newest_first, fold_case) ==
    \/ IF newest_first THEN TextLess(b.when_added, a.when_added)
       ELSE TextLess(a.when_added, b.when_added)
    \/ /\ a.when_added = b.when_added
       /\ \/ TextLess(a.url, b.url)
          \/ a.url = b.url /\ HostNameLeq(a.host_name, b.host_name, fold_case)
InDateOrder(recs, newest_first, fold_case) ==
    \A k \in 1..(Len(recs) - 1) : DateLeq(recs[k], recs[k + 1], newest_first, fold_case)

\* C12 as stated: the HTML writer by date writes the records with when_added
\* never increasing and the Markdown writer by date with when_added never
\* decreasing; records with equal when_added are written by ascending URL, and
\* with equal when_added and URL by ascending host name.
C12_ByDateOrder ==
    /\ AfterByDateHtml => InDateOrder(bmks, TRUE, FALSE)
    /\ AfterMarkdownByDate => InDateOrder(bmks, FALSE, FALSE)

\* C12 as amended: as above, the URLs compared as they are and the host names
\* compared without regard to case; every record is written.
C12_ByDateOrderHostLower ==
    /\ AfterByDateHtml =>
        /\ SameBag(bmks, Arrived)
        /\ InDateOrder(bmks, TRUE, TRUE)
        /\ HoldsRecords(out.bydate_html, bmks)
    /\ AfterMarkdownByDate =>
        /\ SameBag(bmks, Arrived)
        /\ InDateOrder(bmks, FALSE, TRUE)
        /\ HoldsRecords(out.bydate_md, bmks)

\* Both writers by date have written three records added at different times, two
\* more that agree in when_added and differ in the URL, or agree in both and
\* differ in the host.
C12_Witness ==
    /\ AfterMarkdownByDate
    /\ opts.bydate_file # None
    /\ Len(bmks) = 3
    /\ bmks[1].when_added # bmks[3].when_added
    /\ \E j, k \in 1..3 :
        /\ bmks[j].when_added = bmks[k].when_added
        /\ bmks[j].url = bmks[k].url
        /\ bmks[j].host_name = HostAlpha
        /\ bmks[k].host_name = HostCapital


\* the host names among the records
HostsAmong(recs) == {recs[k].host_name : k \in 1..Len(recs)}
\* host_str of a record in a file by date
HostStrOf(host_name, markdown) ==
    IF markdown THEN MarkdownHostStr(host_name) ELSE HtmlHostStr(host_name)
\* A file by date, written for recs, is as C13
\* says: with more than one host among the records it has the banner of
\* multiple hosts, once, and every record carries its host; with one host it
\* has the banner of that host and no record carries a host.
BannerFollowsRecords(items, recs, markdown) ==
    LET banners == SelectSeq(items, LAMBDA it : it.kind # "bookmark")
    IN  /\ Cardinality(HostsAmong(recs)) > 1 =>
            /\ banners = << MultipleHostsItem >>
            /\ \A k \in 1..Len(recs) : Emitted(items)[k].host_str = HostStrOf(recs[k].host_name, markdown)
        /\ Cardinality(HostsAmong(recs)) = 1 =>
            /\ banners = << AsOfItem(recs[1]) >>
            /\ \A k \in 1..Len(recs) : Emitted(items)[k].host_str = <<>>

\* C13: in every run that writes the files by date, every record is followed by
\* its host name and the one banner "multiple hosts" is written exactly when
\* the records are of more than one host; when they are of one host no record
\* carries a host and the banner "On host ... as of ..." is written instead.
C13_HostBanner ==
    /\ AfterByDateHtml => BannerFollowsRecords(out.bydate_html, bmks, FALSE)
    /\ AfterMarkdownByDate => BannerFollowsRecords(out.bydate_md, bmks, TRUE)


\* the title of a record as C14 says it is written: cut to its first 177
\* characters and the marker when it is longer than 180, then escaped
CutTitle(title) ==
    htm_txt(IF Len(title) > 180 THEN SubSeq(title, 1, 177) \o Ellipsis ELSE title)
TitlesAreCut(items, recs) ==
    \A k \in 1..Len(recs) :
        Len(recs[k].title) > 180 =>
            /\ Emitted(items)[k].title = CutTitle(recs[k].title)
            /\ Len(Emitted(items)[k].title) = 180

\* C14: in each of the four writers a title of 200 characters is written as its
\* first 177 characters and the marker "..." (180 characters), and any title
\* longer than 180 characters is cut to 177 of its characters and the marker
\* before it is escaped.
C14_TitleCut ==
    /\ AfterHtml => TitlesAreCut(out.html, bmks)
    /\ AfterMarkdown => TitlesAreCut(out.md, bmks)
    /\ AfterByDateHtml => TitlesAreCut(out.bydate_html, bmks)
    /\ AfterMarkdownByDate => TitlesAreCut(out.bydate_md, bmks)


\* create_db_objects has returned and nothing else has touched the database
ObjectsCreated == pc = "insert_check"

\* C15: create_db_objects, called on a database in which any of the tables
\* hosts and bookmarks and the view view_bookmarks exist, creates the missing
\* ones and nothing else, leaves the objects that existed and the stored rows
\* as they were, and a second call changes nothing.
C15_CreateIdempotent ==
    ObjectsCreated =>
        /\ db_objects \ pre.objects = SchemaObjects \ pre.objects
        /\ pre.objects \subseteq db_objects
        /\ hosts = pre.hosts
        /\ bookmarks = pre.bookmarks
        /\ create_db_objects(db_objects) = db_objects
C15_Witness ==
    /\ ObjectsCreated
    /\ pre.objects = {"hosts", NotesTable}
    /\ Len(hosts) = 1
    /\ db_objects = SchemaObjects \cup {NotesTable}


\* the run was started to read an aggregation database that an earlier run
\* produced, and has ended
RenderRunEnded ==
    /\ pc = "exited"
    /\ argv # <<>>
    /\ argv[1].source_db
    /\ SchemaObjects \subseteq db_objects

\* C16: a run with --from-sqlite on an aggregation database that exists takes
\* its bookmarks from it: it opens no places database and ends successfully,
\* also where there is no profile folder and no places file.
C16_FromDbNeedsNoSource ==
    RenderRunEnded =>
        /\ con = "none"
        /\ error = "none"
        /\ exit_code = 0


\* the run has written its first file, under the name the program gave it
WroteDefault ==
    /\ argv # <<>>
    /\ argv[1].output_file = <<>>
    /\ opts.output_file \in files
\* the time the claim says the run is stamped with
StampTime == IF argv[1].use_mtime THEN places_db.mtime ELSE run_dt
DefaultName(secs) == DefaultPrefix \o opts.host_name \o <<"-">> \o FormatTag(secs) \o HtmlSuffix
\* the "as of" texts of a file
AsOfTexts(items) == { items[k].asof_dt : k \in { i \in 1..Len(items) : items[i].kind = "asof" } }
AllAsOfTexts ==
    AsOfTexts(out.html) \cup AsOfTexts(out.md) \cup AsOfTexts(out.bydate_html)
        \cup AsOfTexts(out.bydate_md)

\* C17, as claimed: with --asof-mtime the default output file name and the
\* "as of" text in the output carry the modification time of the places file,
\* not the time of the run, and without the flag both carry the time of the run.
C17_AsOfStamp ==
    WroteDefault =>
        /\ opts.output_file = DefaultName(StampTime)
        /\ AllAsOfTexts \subseteq {FormatMinutes(StampTime)}

\* C17, amended: that holds in the runs that read the places file.  In a run
\* with --from-sqlite the file name is stamped in the same way, and the "as of"
\* texts are the times at which the hosts were loaded (column created).
C17_AsOfStampExport ==
    WroteDefault =>
        /\ opts.output_file = DefaultName(StampTime)
        /\ Extracting => AllAsOfTexts \subseteq {FormatMinutes(StampTime)}
        /\ ~Extracting => AllAsOfTexts \subseteq {hosts[k].created : k \in 1..Len(hosts)}
C17_Witness ==
    /\ WroteDefault
    /\ Extracting
    /\ argv[1].use_mtime
    /\ pc = "exited"
    /\ AsOfTexts(out.html) = {FormatMinutes(FileMTime)}
    /\ AsOfTexts(out.bydate_md) # {}


\* get_opts has returned the options of a run that was given --output-name
NamedOutput ==
    /\ argv # <<>>
    /\ argv[1].output_file # <<>>
    /\ opts # NoOpts
\* the stem of the name given: its last component without its extension
GivenStem == PathStem(PathName(argv[1].output_file))
NamesAsClaimed ==
    [output_file |-> GivenStem \o HtmlSuffix,
     bydate_file |-> IF argv[1].do_bydate THEN GivenStem \o ByDateTag \o HtmlSuffix ELSE None,
     md_file |-> IF argv[1].do_markdown THEN GivenStem \o MdSuffix ELSE None,
     md_bydate |-> IF argv[1].do_markdown /\ argv[1].do_bydate
                   THEN GivenStem \o ByDateTag \o MdSuffix ELSE None]

\* C18: whatever the extension of the name given with --output-name, the first
\* output file is <stem>.html, the by-date file <stem>-bydate.html (with
\* --by-date only), the Markdown file <stem>.md (with --md only) and the by-date
\* Markdown file <stem>-bydate.md (with both only); these and no others are
\* written.
C18_OutputNames ==
    NamedOutput =>
        /\ \A f \in DOMAIN NamesAsClaimed : opts[f] = NamesAsClaimed[f]
        /\ (pc = "exited" /\ error = "none") =>
                files = { NamesAsClaimed[f] : f \in DOMAIN NamesAsClaimed } \ {None}


\* C19: when a run has ended, on whatever path (main returned, sys.exit, an
\* exception, and in a run with --from-sqlite too), each connection it opened,
\* to the places database and to the aggregation database, is closed.
C19_ConnectionsClosed ==
    pc = "exited" => (con # "open" /\ db # "open")


\* the ways of putting n things in an order
Orders(n) == { p \in [1..n -> 1..n] : \A i, j \in 1..n : p[i] = p[j] => i = j }
\* a may stand before b in the order of a writer: by location, or by date with
\* the newest or the oldest first
KeysLeq(a, b, by) ==
    CASE by = "location" -> TripleLeq(a, b)
      [] by = "newest" -> DateLeq(a, b, TRUE, TRUE)
      [] by = "oldest" -> DateLeq(a, b, FALSE, TRUE)
\* recs in the order of a writer, the records that its keys do not tell apart
\* left in the order in which they stand in recs
StableOrder(recs, by) ==
    CHOOSE p \in Orders(Len(recs)) :
        \A i, j \in 1..Len(recs) :
            i < j => /\ KeysLeq(recs[p[i]], recs[p[j]], by)
                     /\ KeysLeq(recs[p[j]], recs[p[i]], by) => p[i] < p[j]
Stable(recs, by) == CHOOSE r \in {Pick(rs, StableOrder(rs, by)) : rs \in {recs}} : TRUE
\* two different records that the keys of a writer do not tell apart
HasTies(recs, by) ==
    \E i, j \in 1..Len(recs) :
        recs[i] # recs[j] /\ KeysLeq(recs[i], recs[j], by) /\ KeysLeq(recs[j], recs[i], by)
\* what each writer writes when it is given the list recs
HtmlOf(recs) == LocationItems(Pick(recs, LocationSort(recs)), 1, FALSE)
MarkdownOf(recs) == LocationItems(Pick(recs, LocationSort(recs)), 1, TRUE)
ByDateHtmlOf(recs) == ByDateItems(n_hosts, Pick(recs, ByDateSort(recs, TRUE)), FALSE)
MarkdownByDateOf(recs) == ByDateItems(n_hosts, Pick(recs, ByDateSort(recs, FALSE)), TRUE)
\* the records that arrived, in every order
Rearranged == { Pick(arrived, p) : arrived \in {Arrived}, p \in Orders(Len(Arrived)) }

\* C20, as claimed: the order in which a writer writes the records is its own:
\* given the same records in any other order, whatever was run on the list
\* before, it writes the same text.
C20_OrderIndependent ==
    /\ AfterHtml => \A recs \in Rearranged : HtmlOf(recs) = out.html
    /\ AfterMarkdown => \A recs \in Rearranged : MarkdownOf(recs) = out.md
    /\ AfterByDateHtml => \A recs \in Rearranged : ByDateHtmlOf(recs) = out.bydate_html
    /\ AfterMarkdownByDate => \A recs \in Rearranged : MarkdownByDateOf(recs) = out.bydate_md

\* C20, amended: a writer orders the records by its three keys and by nothing
\* else.  Records that agree in the three keys are written in the order in
\* which they stand in the list when the writer is called, and that is the
\* order left by the writers called before it, which sort the same list in
\* place.  Where no two different records agree in the keys of a writer, it
\* writes the same text for the records in any order.
C20_StableOrder ==
    /\ AfterHtml =>
        /\ bmks = Stable(Arrived, "location")
        /\ ~HasTies(bmks, "location") => \A recs \in Rearranged : HtmlOf(recs) = out.html
    /\ AfterMarkdown =>
        /\ bmks = Stable(Arrived, "location")
        /\ ~HasTies(bmks, "location") => \A recs \in Rearranged : MarkdownOf(recs) = out.md
    /\ AfterByDateHtml =>
        /\ bmks = Stable(Stable(Arrived, "location"), "newest")
        /\ ~HasTies(bmks, "newest") =>
                \A recs \in Rearranged : ByDateHtmlOf(recs) = out.bydate_html
    /\ AfterMarkdownByDate =>
        /\ bmks = Stable(Stable(Stable(Arrived, "location"), "newest"), "oldest")
        /\ ~HasTies(bmks, "oldest") =>
                \A recs \in Rearranged : MarkdownByDateOf(recs) = out.bydate_md

\* The by-date Markdown file is written; two records that its keys do not tell
\* apart stand in it in the order left by the writers before, which is not the
\* order in which they arrived.
C20_Witness ==
    /\ AfterMarkdownByDate
    /\ HasTies(bmks, "oldest")
    /\ HoldsRecords(out.bydate_md, bmks)
    /\ bmks # Stable(Arrived, "oldest")


\* the committed hosts row with this id, if there is one
HostRowsWithId(id) == { j \in 1..Len(hosts) : hosts[j].id = id }

\* C21: in a load the hosts row is inserted and committed before the first
\* bookmarks row is inserted, and every bookmarks row of the load carries the
\* id generated for that hosts row; so in every state each host_id of a
\* bookmarks row, committed or not yet, is the id of a committed hosts row.
C21_HostCommittedFirst ==
    /\ \A k \in 1..Len(bookmarks) : HostRowsWithId(bookmarks[k].host_id) # {}
    /\ \A k \in 1..Len(pending) : pending[k].host_id = host_id
    /\ (pc = "insert_rows" \/ pending # <<>>) =>
            \E j \in HostRowsWithId(host_id) :
                /\ j > Len(pre.hosts)
                /\ hosts[j].host_name = opts.host_name
                /\ HostRowsWithId(host_id) = {j}
    /\ LoadAccepted =>
            \A k \in (Len(pre.bookmarks) + 1)..Len(bookmarks) :
                bookmarks[k].host_id = hosts[Len(hosts)].id

\* The second host is being loaded: its hosts row is committed and the first
\* of its bookmarks rows is inserted and not committed.
C21_Witness ==
    /\ pc = "insert_rows"
    /\ Len(pending) = 1
    /\ Len(bmks) > 1
    /\ Len(pre.hosts) = 1
    /\ Len(hosts) = 2
    /\ Len(bookmarks) > 0


\* what a character becomes: its entity, or itself
EntityOf(c) == CASE c = "&" -> Amp [] c = "<" -> Lt [] c = ">" -> Gt [] OTHER -> <<c>>
RECURSIVE Entities(_)
Entities(text) == IF text = <<>> THEN <<>> ELSE EntityOf(Head(text)) \o Entities(Tail(text))
\* the three entities of a text decoded, from left to right
RECURSIVE Decoded(_)
Decoded(s) ==
    IF s = <<>> THEN <<>>
    ELSE IF StartsWith(s, Amp) THEN <<"&">> \o Decoded(SubSeq(s, Len(Amp) + 1, Len(s)))
    ELSE IF StartsWith(s, Lt) THEN <<"<">> \o Decoded(SubSeq(s, Len(Lt) + 1, Len(s)))
    ELSE IF StartsWith(s, Gt) THEN <<">">> \o Decoded(SubSeq(s, Len(Gt) + 1, Len(s)))
    ELSE <<Head(s)>> \o Decoded(Tail(s))
\* escaped is text as C22 says htm_txt leaves it
EscapedAsClaimed(text, escaped) ==
    /\ \A k \in 1..Len(escaped) : escaped[k] \notin {"<", ">"}
    /\ escaped = Entities(text)
    /\ Decoded(escaped) = text
\* the folder paths written to a file are those of the records, escaped
PathsEscaped(items, recs) ==
    /\ Len(Emitted(items)) = Len(recs)
    /\ \A k \in 1..Len(recs) : EscapedAsClaimed(recs[k].parent_path, Emitted(items)[k].parent_path)

\* C22: htm_txt replaces "&" before "<" and ">": whatever the text, the result
\* holds no "<" and no ">", every "&", "<" and ">" of the text has become its
\* entity and the "&" of the entities "&lt;" and "&gt;" is not escaped again, and
\* the result with the three entities decoded is the text.
C22_EscapeOrder ==
    /\ AfterHtml => PathsEscaped(out.html, bmks)
    /\ AfterMarkdown => PathsEscaped(out.md, bmks)
    /\ AfterByDateHtml => PathsEscaped(out.bydate_html, bmks)
    /\ AfterMarkdownByDate => PathsEscaped(out.bydate_md, bmks)
\* The text "&lt;" has been written, as "&amp;lt;".
C22_Witness ==
    /\ AfterHtml
    /\ Len(bmks) = 1
    /\ bmks[1].parent_path = <<"&", "l", "t", ";">>
    /\ Emitted(out.html)[1].parent_path = <<"&", "a", "m", "p", ";", "l", "t", ";">>


\* the index in recs of the record written as the n-th item of a file
RecordAt(items, n) == Cardinality({ i \in 1..n : items[i].kind = "bookmark" })
\* the k-th record is the first of its host
FirstOfHost(recs, k) == \A j \in 1..(k - 1) : recs[j].host_name # recs[k].host_name
\* A file by location, written for recs, is as C25 says: one header for each
\* host name among the records and no other, each right before the first
\* record of its host, and the records of a host one after the other.
SectionsAsClaimed(items, recs) ==
    /\ \A h \in HostsAmong(recs) :
        Cardinality({ n \in 1..Len(items) :
                        items[n].kind = "asof" /\ items[n].host_name = h }) = 1
    /\ \A n \in 1..Len(items) :
        items[n].kind # "bookmark" =>
            /\ items[n].kind = "asof"
            /\ n < Len(items)
            /\ items[n + 1].kind = "bookmark"
            /\ FirstOfHost(recs, RecordAt(items, n + 1))
            /\ items[n].host_name = recs[RecordAt(items, n + 1)].host_name
    /\ \A i, k \in 1..Len(recs) :
        (i < k /\ recs[i].host_name = recs[k].host_name) =>
            \A j \in i..k : recs[j].host_name = recs[i].host_name

\* C25: in the HTML and Markdown files by location, whatever the records, each
\* host name among them has one header, written right before the first record
\* of that host, and the records of the host follow it without a record of
\* another host between them.
C25_OneHeaderPerHost ==
    /\ AfterHtml => (HoldsRecords(out.html, bmks) /\ SectionsAsClaimed(out.html, bmks))
    /\ AfterMarkdown => (HoldsRecords(out.md, bmks) /\ SectionsAsClaimed(out.md, bmks))


\* the committed bookmarks rows of the host with this id
RowsOfHost(id) == SelectSeq(bookmarks, LAMBDA b : b.host_id = id)
\* the hosts row h is accompanied by the records of an accepted load of its host
WholeLoad(h) ==
    \E n \in 1..Len(loaded) :
        /\ loaded[n].host_name = h.host_name
        /\ Len(RowsOfHost(h.id)) = Len(loaded[n].records)
        /\ \A k \in 1..Len(loaded[n].records) : RowOf(RowsOfHost(h.id)[k], loaded[n].records[k])

\* C24: a load is whole or absent.  When a run has ended, however it ended, each
\* hosts row is accompanied by all the records of its load; a load that an
\* error ended while the bookmarks rows were inserted has left no hosts row, so
\* that the host can be loaded by a later run.
C24_AllOrNothing ==
    pc = "exited" =>
        /\ \A j \in 1..Len(hosts) : WholeLoad(hosts[j])
        /\ (LoadDecided /\ error # "none") => hosts = pre.hosts


\* both invocations load the same host name
SameHost == procs[1].host_name = procs[2].host_name
\* the load of invocation p has left rows in the database
TookEffect(p) == procs[p].stored.hosts > 0 \/ procs[p].stored.bookmarks > 0
\* the rows of table bookmarks that are of the load of invocation p
RowsOfProc(p) ==
    { k \in 1..Len(bookmarks) :
        \E r \in 1..Len(procs[p].records) : RowOf(bookmarks[k], procs[p].records[r]) }

\* C23: when two invocations load the same host name into one aggregation
\* database at the same time, however their steps follow one another, the
\* database never holds two hosts rows of that host name and never holds
\* bookmarks rows of both loads: at most one of the loads takes effect.
C23_OneLoadTakesEffect ==
    SameHost =>
        /\ Cardinality({ j \in 1..Len(hosts) : hosts[j].host_name = procs[1].host_name }) <= 1
        /\ ~(TookEffect(1) /\ TookEffect(2))
        /\ RowsOfProc(1) = {} \/ RowsOfProc(2) = {}

\* Both invocations found no row of the host; the first has loaded it and the
\* INSERT INTO hosts of the second has failed.
C23_Witness ==
    /\ SameHost
    /\ procs[1].pc = "done"
    /\ procs[1].ok
    /\ Len(bookmarks) = Len(procs[1].records)
    /\ procs[2].pc = "failed"
    /\ procs[2].error = "IntegrityError"
    /\ pre.objects = {}


====
